---- MODULE Spec2Model ----
(***************************************************************************)
(* A model of the Content Classification & Format Synthesis Engine of the  *)
(* wallet converter: the shape predicates and detectCryptoContentType      *)
(* (cryptoValidator, and the extension's copy in wallet-builder.js), the   *)
(* entry extractor detectWalletEntries (StatusMessages.tsx), the           *)
(* synthesizer buildWallet and the size estimator estimateOutputSize       *)
(* (walletBuilder.ts).                                                     *)
(*                                                                         *)
(* Text is modelled as TLA+ strings, character by character.  The          *)
(* character universe is printable ASCII plus \t \n \r \f; JSON.parse and  *)
(* JSON.stringify are modelled on that universe by a recursive-descent     *)
(* parser and a printer.  Numbers keep their canonical JavaScript text     *)
(* (Number::toString), which is exact for literals of at most 15           *)
(* significant digits; the inputs drawn below stay inside that range.      *)
(***************************************************************************)
EXTENDS Integers, Sequences, FiniteSets, TLC

VARIABLES content, format, done, entries, label, output, repeat, fed, size, bytes, extOutput, ui, checked, scan, app, wb, popup

vars == <<content, format, done, entries, label, output, repeat, fed, size, bytes, extOutput, ui, checked, scan, app, wb, popup>>

(***************************************************************************)
(* Characters and strings (String.prototype helpers used by the code)      *)
(***************************************************************************)
\* s.substring(a - 1, b) in 1-based inclusive positions, clamped to the string
Sub(s, a, b) ==
    LET lo == IF a < 1 THEN 1 ELSE a
        hi == IF b > Len(s) THEN Len(s) ELSE b
    IN  IF lo > hi THEN SubSeq(s, 1, 0) ELSE SubSeq(s, lo, hi)

\* s.charAt(i), 1-based; "" outside the string
Ch(s, i) == IF i >= 1 /\ i <= Len(s) THEN SubSeq(s, i, i) ELSE ""

Digits == {"0", "1", "2", "3", "4", "5", "6", "7", "8", "9"}

HexChars == Digits \cup {"a", "b", "c", "d", "e", "f", "A", "B", "C", "D", "E", "F"}

\* [1-9A-HJ-NP-Za-km-z]: the Base58 alphabet of the WIF patterns
Base58Chars ==
    {"1", "2", "3", "4", "5", "6", "7", "8", "9",
     "A", "B", "C", "D", "E", "F", "G", "H", "J", "K", "L", "M", "N",
     "P", "Q", "R", "S", "T", "U", "V", "W", "X", "Y", "Z",
     "a", "b", "c", "d", "e", "f", "g", "h", "i", "j", "k",
     "m", "n", "o", "p", "q", "r", "s", "t", "u", "v", "w", "x", "y", "z"}

\* what \s and trim() treat as white space, within the character universe
JsWhite == {" ", "\t", "\n", "\r", "\f"}

\* the white space of the JSON grammar
JsonWhite == {" ", "\t", "\n", "\r"}

LineBreaks == {"\n", "\r"}

DigitVal(c) ==
    CASE c = "0" -> 0 [] c = "1" -> 1 [] c = "2" -> 2 [] c = "3" -> 3
      [] c = "4" -> 4 [] c = "5" -> 5 [] c = "6" -> 6 [] c = "7" -> 7
      [] c = "8" -> 8 [] c = "9" -> 9

DigitChar(n) == Ch("0123456789", n + 1)

AllIn(s, set) == \A i \in 1..Len(s) : Ch(s, i) \in set

StartsWith(s, p) == Len(s) >= Len(p) /\ Sub(s, 1, Len(p)) = p

EndsWith(s, p) == Len(s) >= Len(p) /\ Sub(s, Len(s) - Len(p) + 1, Len(s)) = p

\* String.prototype.includes
Contains(s, p) == \E i \in 1..(Len(s) - Len(p) + 1) : Sub(s, i, i + Len(p) - 1) = p

\* the first position of a..b whose character is in set (member = TRUE) or
\* outside it (member = FALSE); b + 1 if there is none
RECURSIVE FirstAt(_, _, _, _, _)
FirstAt(s, a, b, set, member) ==
    IF a > b THEN b + 1
    ELSE IF a = b THEN (IF (Ch(s, a) \in set) = member THEN a ELSE b + 1)
    ELSE LET m == (a + b) \div 2
             l == FirstAt(s, a, m, set, member)
         IN  IF l <= m THEN l ELSE FirstAt(s, m + 1, b, set, member)

\* the last such position of a..b; a - 1 if there is none
RECURSIVE LastAt(_, _, _, _, _)
LastAt(s, a, b, set, member) ==
    IF a > b THEN a - 1
    ELSE IF a = b THEN (IF (Ch(s, a) \in set) = member THEN a ELSE a - 1)
    ELSE LET m == (a + b) \div 2
             r == LastAt(s, m + 1, b, set, member)
         IN  IF r > m THEN r ELSE LastAt(s, a, m, set, member)

\* the first index at or after i whose character is outside set
SkipSet(s, i, set) ==
    IF Ch(s, i) \notin set THEN i ELSE FirstAt(s, i, Len(s), set, FALSE)

\* the last index at or before i whose character is outside set
SkipSetBack(s, i, set) ==
    IF Ch(s, i) \notin set THEN i ELSE LastAt(s, 1, i, set, FALSE)

\* the first index at or after i whose character is in set (Len(s)+1 if none)
FindSet(s, i, set) ==
    IF i > Len(s) THEN i ELSE FirstAt(s, i, Len(s), set, TRUE)

\* String.prototype.trim
Trim(s) ==
    LET a == SkipSet(s, 1, JsWhite)
        b == SkipSetBack(s, Len(s), JsWhite)
    IN  IF a > b THEN "" ELSE Sub(s, a, b)

\* String.prototype.split with a separator pattern [set]+ : the pieces
\* between maximal runs of separator characters (empty first and last
\* pieces included, as JavaScript returns them)
RECURSIVE SplitRuns(_, _, _)
SplitRuns(s, i, set) ==
    LET j == FindSet(s, i, set)
    IN  IF j > Len(s)
        THEN <<Sub(s, i, Len(s))>>
        ELSE <<Sub(s, i, j - 1)>> \o SplitRuns(s, SkipSet(s, j, set), set)

\* content.split(/[\r\n]+/)
SplitLines(s) == SplitRuns(s, 1, LineBreaks)

\* content.split(/\s+/)
SplitWords(s) == SplitRuns(s, 1, JsWhite)

\* s.replace(/[\r\n]+/g, ' ')
RECURSIVE ReplaceBreaks(_, _)
ReplaceBreaks(s, i) ==
    LET j == FindSet(s, i, LineBreaks)
    IN  IF j > Len(s)
        THEN Sub(s, i, Len(s))
        ELSE Sub(s, i, j - 1) \o " " \o ReplaceBreaks(s, SkipSet(s, j, LineBreaks))

RECURSIVE Join(_, _)
Join(seq, sep) ==
    IF seq = <<>> THEN ""
    ELSE IF Len(seq) = 1 THEN seq[1]
    ELSE seq[1] \o sep \o Join(Tail(seq), sep)

RECURSIVE Repeat(_, _)
Repeat(s, n) ==
    IF n <= 0 THEN ""
    ELSE IF n = 1 THEN s
    ELSE Repeat(s, n \div 2) \o Repeat(s, n - (n \div 2))

RECURSIVE NatToStr(_)
NatToStr(n) == IF n < 10 THEN DigitChar(n) ELSE NatToStr(n \div 10) \o DigitChar(n % 10)

(***************************************************************************)
(* JSON values, JSON.parse and JSON.stringify                              *)
(*                                                                         *)
(* A value is a record [t, s, a, k]: t its kind; s the text of a string,   *)
(* the canonical text of a number or "true"/"false"; a the elements of an  *)
(* array or the property values of an object; k the property names of an   *)
(* object, in JavaScript's own-property order.                             *)
(***************************************************************************)
JNull == [t |-> "null", s |-> "", a |-> <<>>, k |-> <<>>]

Undefined == [t |-> "undefined", s |-> "", a |-> <<>>, k |-> <<>>]

JBool(b) == [t |-> "bool", s |-> IF b THEN "true" ELSE "false", a |-> <<>>, k |-> <<>>]

JNum(text) == [t |-> "num", s |-> text, a |-> <<>>, k |-> <<>>]

JStr(text) == [t |-> "str", s |-> text, a |-> <<>>, k |-> <<>>]

JArr(items) == [t |-> "arr", s |-> "", a |-> items, k |-> <<>>]

JObj(keys, vals) == [t |-> "obj", s |-> "", a |-> vals, k |-> keys]

\* an object literal of the code: <<name, value>> pairs in source order
Obj(pairs) ==
    JObj([i \in 1..Len(pairs) |-> pairs[i][1]], [i \in 1..Len(pairs) |-> pairs[i][2]])

\* value.name for a non-null value (the callers model the TypeError on null)
Get(v, name) ==
    IF v.t = "obj" /\ \E p \in 1..Len(v.k) : v.k[p] = name
    THEN v.a[CHOOSE p \in 1..Len(v.k) : v.k[p] = name]
    ELSE Undefined

\* ToBoolean
Truthy(v) ==
    CASE v.t \in {"null", "undefined"} -> FALSE
      [] v.t = "bool" -> v.s = "true"
      [] v.t = "num" -> v.s # "0"
      [] v.t = "str" -> v.s # ""
      [] OTHER -> TRUE

\* a || b
OrElse(a, b) == IF Truthy(a) THEN a ELSE b

\* a && b
AndAlso(a, b) == IF Truthy(a) THEN b ELSE a

StripLeadingZeros(d) == Sub(d, SkipSet(d, 1, {"0"}), Len(d))

StripTrailingZeros(d) == Sub(d, 1, SkipSetBack(d, Len(d), {"0"}))

RECURSIVE StrToNat(_)
StrToNat(d) ==
    IF d = "" THEN 0 ELSE StrToNat(Sub(d, 1, Len(d) - 1)) * 10 + DigitVal(Ch(d, Len(d)))

\* the largest decimal exponent the model distinguishes: beyond it a
\* number is Infinity or 0 whatever the rest of the exponent says
ExponentCap == 9999

ExpToNat(d) ==
    LET e == StripLeadingZeros(d)
    IN  IF Len(e) > 4 THEN ExponentCap ELSE StrToNat(e)

\* the shortest decimal text of sign 0.digs * 10^n
NumberText(sign, digs, n) ==
    LET kk == Len(digs)
        mant == IF kk = 1 THEN digs ELSE Ch(digs, 1) \o "." \o Sub(digs, 2, kk)
    IN  IF kk = 0 \/ n < 0 - 323 THEN "0"
        ELSE IF n > 309 THEN sign \o "Infinity"
        ELSE IF kk <= n /\ n <= 21 THEN sign \o digs \o Repeat("0", n - kk)
        ELSE IF 0 < n /\ n <= 21 THEN sign \o Sub(digs, 1, n) \o "." \o Sub(digs, n + 1, kk)
        ELSE IF 0 - 6 < n /\ n <= 0 THEN sign \o "0." \o Repeat("0", 0 - n) \o digs
        ELSE IF n >= 1 THEN sign \o mant \o "e+" \o NatToStr(n - 1)
        ELSE sign \o mant \o "e-" \o NatToStr(1 - n)

\* Number::toString of the number a JSON literal denotes: sign, integer
\* digits, fraction digits, exponent sign and exponent digits.  The value
\* is 0.digs * 10^n, digs without leading or trailing zeros.
NumberToString(neg, intDigits, fracDigits, expNeg, expDigits) ==
    LET lead == StripLeadingZeros(intDigits \o fracDigits)
    IN  NumberText(IF neg THEN "-" ELSE "", StripTrailingZeros(lead),
                   Len(lead) - Len(fracDigits)
                   + (IF expNeg THEN 0 - ExpToNat(expDigits) ELSE ExpToNat(expDigits)))

Fail == [ok |-> FALSE, v |-> JNull, i |-> 0]

Parsed(v, i) == [ok |-> TRUE, v |-> v, i |-> i]

\* number = -? (0 | [1-9][0-9]*) (. [0-9]+)? ([eE] [+-]? [0-9]+)?
NumberLiteral(s, neg, a, b, c, d0, d) ==
    LET hasFrac == Ch(s, b) = "."
        hasExp == Ch(s, c) \in {"e", "E"}
    IN  IF /\ b > a /\ (Ch(s, a) # "0" \/ b = a + 1)
           /\ (~hasFrac \/ c > b + 1)
           /\ (~hasExp \/ d > d0)
        THEN Parsed(JNum(NumberToString(neg, Sub(s, a, b - 1),
                                        IF hasFrac THEN Sub(s, b + 1, c - 1) ELSE "",
                                        hasExp /\ Ch(s, c + 1) = "-",
                                        IF hasExp THEN Sub(s, d0, d - 1) ELSE "")),
                    IF hasExp THEN d ELSE c)
        ELSE Fail

NumberExponent(s, neg, a, b, c) ==
    LET d0 == IF Ch(s, c + 1) \in {"+", "-"} THEN c + 2 ELSE c + 1
    IN  NumberLiteral(s, neg, a, b, c, d0, SkipSet(s, d0, Digits))

NumberFraction(s, neg, a, b) ==
    NumberExponent(s, neg, a, b, IF Ch(s, b) = "." THEN SkipSet(s, b + 1, Digits) ELSE b)

\* a..b-1 are the integer digits, b+1..c-1 the fraction digits and
\* d0..d-1 the exponent digits
ParseNumber(s, i) ==
    LET a == IF Ch(s, i) = "-" THEN i + 1 ELSE i
    IN  NumberFraction(s, Ch(s, i) = "-", a, SkipSet(s, a, Digits))

\* the character an escape \c denotes ("" when the escape is not one of
\* the character universe: \b and \uXXXX are not modelled)
Unescape(c) ==
    CASE c = "\"" -> "\"" [] c = "\\" -> "\\" [] c = "/" -> "/"
      [] c = "n" -> "\n" [] c = "r" -> "\r" [] c = "t" -> "\t" [] c = "f" -> "\f"
      [] OTHER -> ""

\* the characters that end a run of plain characters in a string literal
StringSpecials == {"\"", "\\", "\t", "\n", "\r", "\f"}

\* the characters of a string literal from position j, after its opening
\* quote: plain characters up to p, then a quote, an escape or an error
RECURSIVE ParseStringBody(_, _, _)
ParseStringBody(s, j, acc) ==
    LET p == FindSet(s, j, StringSpecials)
        c == Ch(s, p)
    IN  IF p > Len(s) \/ c \in {"\t", "\n", "\r", "\f"} THEN Fail
        ELSE IF c = "\"" THEN Parsed(JStr(acc \o Sub(s, j, p - 1)), p + 1)
        ELSE IF Unescape(Ch(s, p + 1)) = "" THEN Fail
        ELSE ParseStringBody(s, p + 2, acc \o Sub(s, j, p - 1) \o Unescape(Ch(s, p + 1)))

NumLess(x, y) ==
    \/ Len(x) < Len(y)
    \/ /\ Len(x) = Len(y)
       /\ \E i \in 1..Len(x) :
             /\ Sub(x, 1, i - 1) = Sub(y, 1, i - 1)
             /\ DigitVal(Ch(x, i)) < DigitVal(Ch(y, i))

\* a canonical array index: own properties with such names come first, in
\* ascending numeric order
IsArrayIndex(name) ==
    /\ name # ""
    /\ AllIn(name, Digits)
    /\ (name = "0" \/ Ch(name, 1) # "0")
    /\ (name = "4294967294" \/ NumLess(name, "4294967294"))

\* defining property name of an object under construction: a repeated name
\* keeps its place and takes the new value
ObjInsert(o, name, val, before) ==
    JObj(Sub(o.k, 1, before) \o <<name>> \o Sub(o.k, before + 1, Len(o.k)),
         Sub(o.a, 1, before) \o <<val>> \o Sub(o.a, before + 1, Len(o.a)))

ObjPut(o, name, val) ==
    IF \E p \in 1..Len(o.k) : o.k[p] = name
    THEN JObj(o.k, [o.a EXCEPT ![CHOOSE q \in 1..Len(o.k) : o.k[q] = name] = val])
    ELSE IF IsArrayIndex(name)
    THEN ObjInsert(o, name, val,
                   Cardinality({q \in 1..Len(o.k) : IsArrayIndex(o.k[q]) /\ NumLess(o.k[q], name)}))
    ELSE JObj(Append(o.k, name), Append(o.a, val))

SkipJsonWs(s, i) == SkipSet(s, i, JsonWhite)

RECURSIVE ParseValue(_, _)
RECURSIVE ParseElements(_, _, _)
RECURSIVE ParseMembers(_, _, _)

ElementsAfter(s, acc, r) ==
    LET j == SkipJsonWs(s, r.i)
    IN  IF ~r.ok THEN Fail
        ELSE IF Ch(s, j) = "," THEN ParseElements(s, j + 1, Append(acc, r.v))
        ELSE IF Ch(s, j) = "]" THEN Parsed(JArr(Append(acc, r.v)), j + 1)
        ELSE Fail

ParseElements(s, i, acc) == ElementsAfter(s, acc, ParseValue(s, i))

MemberAfter(s, o, key, r) ==
    LET e == SkipJsonWs(s, r.i)
    IN  IF ~r.ok THEN Fail
        ELSE IF Ch(s, e) = "," THEN ParseMembers(s, e + 1, ObjPut(o, key.v.s, r.v))
        ELSE IF Ch(s, e) = "}" THEN Parsed(ObjPut(o, key.v.s, r.v), e + 1)
        ELSE Fail

MemberValue(s, o, key) ==
    LET c == SkipJsonWs(s, key.i)
    IN  MemberAfter(s, o, key, IF key.ok /\ Ch(s, c) = ":" THEN ParseValue(s, c + 1) ELSE Fail)

ParseMembers(s, i, o) ==
    LET j == SkipJsonWs(s, i)
    IN  MemberValue(s, o, IF Ch(s, j) = "\"" THEN ParseStringBody(s, j + 1, "") ELSE Fail)

\* j is the first character of the value
ValueAt(s, j) ==
    LET c == Ch(s, j)
        n == SkipJsonWs(s, j + 1)
    IN  IF c = "{"
        THEN IF Ch(s, n) = "}" THEN Parsed(JObj(<<>>, <<>>), n + 1)
             ELSE ParseMembers(s, j + 1, JObj(<<>>, <<>>))
        ELSE IF c = "["
        THEN IF Ch(s, n) = "]" THEN Parsed(JArr(<<>>), n + 1)
             ELSE ParseElements(s, j + 1, <<>>)
        ELSE IF c = "\"" THEN ParseStringBody(s, j + 1, "")
        ELSE IF c = "-" \/ c \in Digits THEN ParseNumber(s, j)
        ELSE IF Sub(s, j, j + 3) = "null" THEN Parsed(JNull, j + 4)
        ELSE IF Sub(s, j, j + 3) = "true" THEN Parsed(JBool(TRUE), j + 4)
        ELSE IF Sub(s, j, j + 4) = "false" THEN Parsed(JBool(FALSE), j + 5)
        ELSE Fail

ParseValue(s, i) == ValueAt(s, SkipJsonWs(s, i))

\* JSON.parse(s): ok is FALSE where JavaScript throws a SyntaxError
JsonParse(s) ==
    LET Whole(r) == IF r.ok /\ SkipJsonWs(s, r.i) > Len(s) THEN r ELSE Fail
    IN  Whole(ParseValue(s, 1))

EscapeChar(c) ==
    CASE c = "\"" -> "\\\"" [] c = "\\" -> "\\\\"
      [] c = "\n" -> "\\n" [] c = "\r" -> "\\r" [] c = "\t" -> "\\t" [] c = "\f" -> "\\f"
      [] OTHER -> c

\* s[i..] with every character JSON.stringify escapes replaced
RECURSIVE Escape(_, _)
Escape(s, i) ==
    LET p == FindSet(s, i, StringSpecials)
    IN  IF p > Len(s) THEN Sub(s, i, Len(s))
        ELSE Sub(s, i, p - 1) \o EscapeChar(Ch(s, p)) \o Escape(s, p + 1)

Quote(s) == "\"" \o Escape(s, 1) \o "\""

\* JSON.stringify(v) when gap = 0 and JSON.stringify(v, null, gap) otherwise,
\* at nesting depth `depth`
RECURSIVE Serialize(_, _, _)
Serialize(v, gap, depth) ==
    LET inner == IF gap = 0 THEN "" ELSE "\n" \o Repeat(" ", gap * (depth + 1))
        outer == IF gap = 0 THEN "" ELSE "\n" \o Repeat(" ", gap * depth)
        colon == IF gap = 0 THEN ":" ELSE ": "
        kept == {p \in 1..Len(v.a) : v.a[p].t # "undefined"}
        item(p) == IF v.a[p].t = "undefined" THEN "null" ELSE Serialize(v.a[p], gap, depth + 1)
        member(p) == Quote(v.k[p]) \o colon \o Serialize(v.a[p], gap, depth + 1)
        pick == SelectSeq([p \in 1..Len(v.a) |-> p], LAMBDA p : p \in kept)
    IN  CASE v.t = "null" -> "null"
          [] v.t = "bool" -> v.s
          [] v.t = "num" -> IF v.s \in {"Infinity", "-Infinity"} THEN "null" ELSE v.s
          [] v.t = "str" -> Quote(v.s)
          [] v.t = "arr" ->
                IF Len(v.a) = 0 THEN "[]"
                ELSE "[" \o inner
                     \o Join([p \in 1..Len(v.a) |-> item(p)], "," \o inner)
                     \o outer \o "]"
          [] v.t = "obj" ->
                IF kept = {} THEN "{}"
                ELSE "{" \o inner
                     \o Join([q \in 1..Len(pick) |-> member(pick[q])], "," \o inner)
                     \o outer \o "}"

\* JSON.stringify(v)
Stringify(v) == Serialize(v, 0, 0)

\* JSON.stringify(v, null, 2)
StringifyPretty(v) == Serialize(v, 2, 0)

(***************************************************************************)
(* Content classifier: the web client's cryptoValidator                    *)
(***************************************************************************)
\* /^[5KL][1-9A-HJ-NP-Za-km-z]{50,51}$/.test(content.trim())
isValidWIF(text) ==
    LET Test(t) == /\ Len(t) - 1 \in 50..51
                   /\ Ch(t, 1) \in {"5", "K", "L"}
                   /\ AllIn(Sub(t, 2, Len(t)), Base58Chars)
    IN  Test(Trim(text))

\* isValidPrivateKey accepting hexadecimal text of 40 characters or more
isValidPrivateKeyAnyLength(text) ==
    LET Test(hexContent) == Len(hexContent) >= 40 /\ AllIn(hexContent, HexChars)
        Strip(t) == Test(IF StartsWith(t, "0x") THEN Sub(t, 3, Len(t)) ELSE t)
    IN  Strip(Trim(text))

\* /^[0-9a-fA-F]{64}$/ after an optional 0x prefix is removed
isValidPrivateKey(text) ==
    LET Test(hexContent) == Len(hexContent) = 64 /\ AllIn(hexContent, HexChars)
        Strip(t) == Test(IF StartsWith(t, "0x") THEN Sub(t, 3, Len(t)) ELSE t)
    IN  Strip(Trim(text))

isValidMnemonic(text) == Len(SplitWords(Trim(text))) \in {12, 15, 18, 21, 24}

isValidExtendedKey(text) ==
    LET Test(trimmedContent) ==
            \/ StartsWith(trimmedContent, "xpub") \/ StartsWith(trimmedContent, "xprv")
            \/ StartsWith(trimmedContent, "ypub") \/ StartsWith(trimmedContent, "yprv")
            \/ StartsWith(trimmedContent, "zpub") \/ StartsWith(trimmedContent, "zprv")
    IN  Test(Trim(text))

\* /^(0x)?[0-9a-fA-F]{40}$/.test(content.trim())
isValidEthereumAddress(text) ==
    LET Test(hexContent) == Len(hexContent) = 40 /\ AllIn(hexContent, HexChars)
        Strip(t) == Test(IF StartsWith(t, "0x") THEN Sub(t, 3, Len(t)) ELSE t)
    IN  Strip(Trim(text))

\* reading a property of null raises a TypeError
ThrowsOnRead(v) == v.t = "null"

\* isValidWalletJSON testing that the properties are present, whatever their
\* values
isValidWalletJSONByPresence(text) ==
    LET Has(v, name) == v.t = "obj" /\ \E p \in 1..Len(v.k) : v.k[p] = name
        Test(ok, parsed) ==
            IF ~ok \/ ThrowsOnRead(parsed) THEN FALSE
            ELSE \/ Has(parsed, "wallet_type") /\ Has(parsed, "seed_version")
                 \/ Has(parsed, "crypto") /\ Has(parsed, "version")
                 \/ \E name \in {"keystore", "privateKey", "xprv", "seed", "mnemonic", "seedPhrase"} :
                        Has(parsed, name)
        Try(r) == Test(r.ok, r.v)
    IN  Try(JsonParse(text))

isValidWalletJSON(text) ==
    LET Test(ok, parsed) ==
            IF ~ok \/ ThrowsOnRead(parsed) THEN FALSE
            ELSE Truthy(
                OrElse(AndAlso(Get(parsed, "wallet_type"), Get(parsed, "seed_version")),
                OrElse(AndAlso(Get(parsed, "crypto"), Get(parsed, "version")),
                OrElse(Get(parsed, "keystore"),
                OrElse(Get(parsed, "privateKey"),
                OrElse(Get(parsed, "xprv"),
                OrElse(Get(parsed, "seed"),
                OrElse(Get(parsed, "mnemonic"), Get(parsed, "seedPhrase")))))))))
        Try(r) == Test(r.ok, r.v)
    IN  Try(JsonParse(text))

detectCryptoContentType(text) ==
    LET Type(trimmedContent) ==
            IF isValidWalletJSON(trimmedContent) THEN "Wallet JSON"
            ELSE IF isValidWIF(trimmedContent) THEN "WIF Private Key"
            ELSE IF isValidPrivateKey(trimmedContent) THEN "Raw Private Key (Hex)"
            ELSE IF isValidMnemonic(trimmedContent) THEN "Mnemonic Seed Phrase"
            ELSE IF isValidExtendedKey(trimmedContent) THEN "Extended Key (xpub/xprv)"
            ELSE IF isValidEthereumAddress(trimmedContent) THEN "Ethereum Address"
            ELSE "Unknown"
    IN  Type(Trim(text))

(***************************************************************************)
(* Content classifier: the extension's copy (wallet-builder.js)            *)
(***************************************************************************)
Ext_isValidWIF(text) ==
    LET Test(t) == /\ Len(t) - 1 \in 50..51
                   /\ Ch(t, 1) \in {"5", "K", "L"}
                   /\ AllIn(Sub(t, 2, Len(t)), Base58Chars)
    IN  Test(Trim(text))

Ext_isValidPrivateKey(text) ==
    LET Test(hexContent) == Len(hexContent) = 64 /\ AllIn(hexContent, HexChars)
        Strip(t) == Test(IF StartsWith(t, "0x") THEN Sub(t, 3, Len(t)) ELSE t)
    IN  Strip(Trim(text))

Ext_isValidMnemonic(text) == Len(SplitWords(Trim(text))) \in {12, 15, 18, 21, 24}

Ext_isValidExtendedKey(text) ==
    LET Test(trimmedContent) ==
            \/ StartsWith(trimmedContent, "xpub") \/ StartsWith(trimmedContent, "xprv")
            \/ StartsWith(trimmedContent, "ypub") \/ StartsWith(trimmedContent, "yprv")
            \/ StartsWith(trimmedContent, "zpub") \/ StartsWith(trimmedContent, "zprv")
    IN  Test(Trim(text))

Ext_isValidEthereumAddress(text) ==
    LET Test(hexContent) == Len(hexContent) = 40 /\ AllIn(hexContent, HexChars)
        Strip(t) == Test(IF StartsWith(t, "0x") THEN Sub(t, 3, Len(t)) ELSE t)
    IN  Strip(Trim(text))

Ext_isValidWalletJSON(text) ==
    LET Test(ok, parsed) ==
            IF ~ok \/ ThrowsOnRead(parsed) THEN FALSE
            ELSE Truthy(
                OrElse(AndAlso(Get(parsed, "wallet_type"), Get(parsed, "seed_version")),
                OrElse(AndAlso(Get(parsed, "crypto"), Get(parsed, "version")),
                OrElse(Get(parsed, "keystore"),
                OrElse(Get(parsed, "privateKey"),
                OrElse(Get(parsed, "xprv"),
                OrElse(Get(parsed, "seed"),
                OrElse(Get(parsed, "mnemonic"), Get(parsed, "seedPhrase")))))))))
        Try(r) == Test(r.ok, r.v)
    IN  Try(JsonParse(text))

\* Ext_detectCryptoContentType with the extended-key test before the mnemonic test
Ext_detectExtendedKeyFirst(text) ==
    LET Type(trimmedContent) ==
            IF Ext_isValidWalletJSON(trimmedContent) THEN "Wallet JSON"
            ELSE IF Ext_isValidWIF(trimmedContent) THEN "WIF Private Key"
            ELSE IF Ext_isValidPrivateKey(trimmedContent) THEN "Raw Private Key (Hex)"
            ELSE IF Ext_isValidExtendedKey(trimmedContent) THEN "Extended Key (xpub/xprv)"
            ELSE IF Ext_isValidMnemonic(trimmedContent) THEN "Mnemonic Seed Phrase"
            ELSE IF Ext_isValidEthereumAddress(trimmedContent) THEN "Ethereum Address"
            ELSE "Unknown"
    IN  Type(Trim(text))

Ext_detectCryptoContentType(text) ==
    LET Type(trimmedContent) ==
            IF Ext_isValidWalletJSON(trimmedContent) THEN "Wallet JSON"
            ELSE IF Ext_isValidWIF(trimmedContent) THEN "WIF Private Key"
            ELSE IF Ext_isValidPrivateKey(trimmedContent) THEN "Raw Private Key (Hex)"
            ELSE IF Ext_isValidMnemonic(trimmedContent) THEN "Mnemonic Seed Phrase"
            ELSE IF Ext_isValidExtendedKey(trimmedContent) THEN "Extended Key (xpub/xprv)"
            ELSE IF Ext_isValidEthereumAddress(trimmedContent) THEN "Ethereum Address"
            ELSE "Unknown"
    IN  Type(Trim(text))

(***************************************************************************)
(* Entry extractor (StatusMessages.tsx)                                    *)
(***************************************************************************)
\* Entry with indices counted from one
EntryFromOne(text, type, index) == [content |-> text, type |-> type, index |-> index + 1]

Entry(text, type, index) == [content |-> text, type |-> type, index |-> index]

detectEntryType(text) ==
    LET Type(trimmedContent, parses) ==
            LET wordCount == Len(SplitWords(trimmedContent))
                hexContent == IF StartsWith(trimmedContent, "0x")
                              THEN Sub(trimmedContent, 3, Len(trimmedContent)) ELSE trimmedContent
            IN  IF parses THEN "json"
                ELSE IF wordCount \in {12, 15, 18, 21, 24} THEN "mnemonic"
                \* /^(0x)?[0-9a-fA-F]{64}$/
                ELSE IF Len(hexContent) = 64 /\ AllIn(hexContent, HexChars) THEN "private_key"
                \* /^[5KL][1-9A-HJ-NP-Za-km-z]{50,52}$/
                ELSE IF /\ Len(trimmedContent) - 1 \in 50..52
                        /\ Ch(trimmedContent, 1) \in {"5", "K", "L"}
                        /\ AllIn(Sub(trimmedContent, 2, Len(trimmedContent)), Base58Chars)
                     THEN "wif"
                \* /^(xprv|xpub|yprv|ypub|zprv|zpub)/
                ELSE IF \E p \in {"xprv", "xpub", "yprv", "ypub", "zprv", "zpub"} :
                            StartsWith(trimmedContent, p)
                     THEN "extended_key"
                ELSE "text"
    IN  Type(Trim(text), JsonParse(Trim(text)).ok)

\* EntriesOf with the elements pretty-printed, as the synthesizer prints them
EntriesOfPretty(items) ==
    [i \in 1..Len(items) |-> Entry(StringifyPretty(items[i]), "json", i - 1)]

\* items.forEach((item, index) => entries.push({content: JSON.stringify(item), type: 'json', index}))
EntriesOf(items) == [i \in 1..Len(items) |-> Entry(Stringify(items[i]), "json", i - 1)]

\* the state of the multi-line scan before its first line
ScanInit == [inJsonBlock |-> FALSE, jsonBlock |-> "", blockIndex |-> 0, entries |-> <<>>]

\* ScanStep with '#' as the only comment mark
ScanStepHashOnly(st, rawLine) ==
    LET Step(line, block, blockType, lineType) ==
            IF StartsWith(line, "#") \/ line = "" THEN st
            ELSE IF StartsWith(line, "{") /\ ~st.inJsonBlock
            THEN [st EXCEPT !.inJsonBlock = TRUE, !.jsonBlock = line]
            ELSE IF st.inJsonBlock
            THEN IF EndsWith(line, "}")
                 THEN [inJsonBlock |-> FALSE,
                       jsonBlock |-> "",
                       blockIndex |-> st.blockIndex + 1,
                       entries |-> Append(st.entries, Entry(block, blockType, st.blockIndex))]
                 ELSE [st EXCEPT !.jsonBlock = block]
            ELSE [st EXCEPT !.blockIndex = st.blockIndex + 1,
                            !.entries = Append(st.entries, Entry(line, lineType, st.blockIndex))]
    IN  Step(Trim(rawLine), st.jsonBlock \o Trim(rawLine),
             IF JsonParse(st.jsonBlock \o Trim(rawLine)).ok THEN "json" ELSE "text",
             detectEntryType(Trim(rawLine)))

\* ScanStep with a block closed by its opening line when that line ends
\* with '}'
ScanStepSelfClosing(st, rawLine) ==
    LET Step(line, block, blockType, lineType) ==
            IF StartsWith(line, "#") \/ StartsWith(line, "//") \/ line = "" THEN st
            ELSE IF StartsWith(line, "{") /\ ~st.inJsonBlock
            THEN IF EndsWith(line, "}")
                 THEN [st EXCEPT !.blockIndex = st.blockIndex + 1,
                                 !.entries = Append(st.entries, Entry(line, lineType, st.blockIndex))]
                 ELSE [st EXCEPT !.inJsonBlock = TRUE, !.jsonBlock = line]
            ELSE IF st.inJsonBlock
            THEN IF EndsWith(line, "}")
                 THEN [inJsonBlock |-> FALSE,
                       jsonBlock |-> "",
                       blockIndex |-> st.blockIndex + 1,
                       entries |-> Append(st.entries, Entry(block, blockType, st.blockIndex))]
                 ELSE [st EXCEPT !.jsonBlock = block]
            ELSE [st EXCEPT !.blockIndex = st.blockIndex + 1,
                            !.entries = Append(st.entries, Entry(line, lineType, st.blockIndex))]
    IN  Step(Trim(rawLine), st.jsonBlock \o Trim(rawLine),
             IF JsonParse(st.jsonBlock \o Trim(rawLine)).ok THEN "json" ELSE "text",
             detectEntryType(Trim(rawLine)))

\* one iteration of the scan loop, on lines[i]
ScanStep(st, rawLine) ==
    LET Step(line, block, blockType, lineType) ==
            IF StartsWith(line, "#") \/ StartsWith(line, "//") \/ line = "" THEN st
            ELSE IF StartsWith(line, "{") /\ ~st.inJsonBlock
            THEN [st EXCEPT !.inJsonBlock = TRUE, !.jsonBlock = line]
            ELSE IF st.inJsonBlock
            THEN IF EndsWith(line, "}")
                 THEN [inJsonBlock |-> FALSE,
                       jsonBlock |-> "",
                       blockIndex |-> st.blockIndex + 1,
                       entries |-> Append(st.entries, Entry(block, blockType, st.blockIndex))]
                 ELSE [st EXCEPT !.jsonBlock = block]
            ELSE [st EXCEPT !.blockIndex = st.blockIndex + 1,
                            !.entries = Append(st.entries, Entry(line, lineType, st.blockIndex))]
    IN  Step(Trim(rawLine), st.jsonBlock \o Trim(rawLine),
             IF JsonParse(st.jsonBlock \o Trim(rawLine)).ok THEN "json" ELSE "text",
             detectEntryType(Trim(rawLine)))

\* the scan loop over lines[i..]
RECURSIVE ScanFrom(_, _, _)
ScanFrom(st, lines, i) ==
    IF i > Len(lines) THEN st ELSE ScanFrom(ScanStep(st, lines[i]), lines, i + 1)

\* content.split(/[\r\n]+/).filter(line => line.trim().length > 0)
NonBlankLines(text) == SelectSeq(SplitLines(text), LAMBDA line : Len(Trim(line)) > 0)

\* detectTextEntries emitting a block that is still open after the last line
detectTextEntriesFlushing(text) ==
    LET Flushed(st) ==
            IF st.inJsonBlock THEN Append(st.entries, Entry(st.jsonBlock, "text", st.blockIndex))
            ELSE st.entries
        Result(lines, scanned, whole) ==
            IF Len(lines) > 1 /\ Len(scanned) > 0 THEN scanned ELSE <<whole>>
    IN  Result(NonBlankLines(text), Flushed(ScanFrom(ScanInit, NonBlankLines(text), 1)),
               Entry(text, detectEntryType(text), 0))

\* the text part of detectWalletEntries, after JSON.parse (or a property
\* read of the parsed value) has thrown
detectTextEntries(text) ==
    LET Result(lines, scanned, whole) ==
            IF Len(lines) > 1 /\ Len(scanned) > 0 THEN scanned ELSE <<whole>>
    IN  Result(NonBlankLines(text), ScanFrom(ScanInit, NonBlankLines(text), 1).entries,
               Entry(text, detectEntryType(text), 0))

\* detectWalletEntries without the JSON branch: every file is read by lines
detectWalletEntriesByLines(text) == detectTextEntries(text)

detectWalletEntries(text) ==
    LET \* caught is what the catch block returns, whatever was thrown
        Entries(ok, jsonData, wallets, caught) ==
            IF ~ok THEN caught
            ELSE IF jsonData.t = "arr" THEN EntriesOf(jsonData.a)
            ELSE IF ThrowsOnRead(jsonData) THEN caught
            ELSE IF Truthy(wallets) /\ wallets.t \in {"arr", "obj"} THEN EntriesOf(wallets.a)
            ELSE <<Entry(text, "json", 0)>>
        Try(r, caught) == Entries(r.ok, r.v, Get(r.v, "wallets"), caught)
    IN  Try(JsonParse(text), detectTextEntries(text))

(***************************************************************************)
(* Format synthesizer (walletBuilder.ts)                                   *)
(*                                                                         *)
(* A call returns [thrown, text]: thrown where JavaScript leaves the       *)
(* function by an exception.  env is what the call reads from outside its  *)
(* arguments: env.rand, the values Math.random() * 16 | 0 takes (cycled),  *)
(* and env.iso / env.ms, the clock as toISOString() and getTime() give it. *)
(***************************************************************************)
Ret(text) == [thrown |-> FALSE, text |-> text]

Thrown == [thrown |-> TRUE, text |-> ""]

\* a try block whose exception is not caught
NoCatch(body, handler) == body

\* try { body } catch (e) { handler }
TryCatch(body, handler) == IF body.thrown THEN handler ELSE body

\* rawContent.trim() alone
TrimContent(raw) == Trim(raw)

\* rawContent.trim().replace(/[\r\n]+/g, ' ')
CleanContent(raw) == ReplaceBreaks(Trim(raw), 1)

IdTemplate == "xxxxxxxx-xxxx-4xxx-yxxx-xxxxxxxxxxxx"

\* the replace callback of generateRandomId over IdTemplate[i..], after n draws
RECURSIVE FillTemplate(_, _, _)
FillTemplate(i, n, rand) ==
    LET c == Ch(IdTemplate, i)
        r == rand[(n % Len(rand)) + 1]
        v == IF c = "x" THEN r ELSE (r % 4) + 8
    IN  IF i > Len(IdTemplate) THEN ""
        ELSE IF c \in {"x", "y"}
        THEN Ch("0123456789abcdef", v + 1) \o FillTemplate(i + 1, n + 1, rand)
        ELSE c \o FillTemplate(i + 1, n, rand)

generateRandomId(env) == FillTemplate(1, 0, env.rand)

extractAddressFromData(data) ==
    IF Truthy(Get(data, "address")) THEN Get(data, "address")
    ELSE JStr("placeholder-ethereum-address")

extractSeedFromData(data) ==
    LET direct == OrElse(Get(data, "mnemonic"), OrElse(Get(data, "seed"), Get(data, "seedPhrase")))
        keystore == Get(data, "keystore")
        \* data.keystore?.seed
        nested == IF keystore.t \in {"null", "undefined"} THEN Undefined ELSE Get(keystore, "seed")
    IN  IF Truthy(direct)
        THEN Obj(<< <<"encrypted", JBool(FALSE)>>, <<"value", direct>> >>)
        ELSE IF Truthy(nested)
        THEN Obj(<< <<"encrypted", JBool(FALSE)>>, <<"value", nested>> >>)
        ELSE Obj(<< <<"encrypted", JBool(FALSE)>>, <<"value", JStr("placeholder")>> >>)

detectCryptoType(text) ==
    IF isValidMnemonic(text) THEN "mnemonic"
    ELSE IF isValidPrivateKey(text) THEN "privateKey"
    ELSE IF isValidWIF(text) THEN "wif"
    ELSE IF isValidExtendedKey(text) THEN "extendedKey"
    ELSE "unknown"

EmptyObject == JObj(<<>>, <<>>)

\* createNewWallet with the extended key tested before the mnemonic
createNewWalletExtendedFirst(rawContent) ==
    LET Wallet(cleanContent) ==
            IF isValidExtendedKey(cleanContent)
            THEN Obj(<< <<"seed_version", JNum("17")>>,
                        <<"wallet_type", JStr("standard")>>,
                        <<"keystore", Obj(<< <<"type", JStr("bip32")>>,
                                             <<"xpub", JStr(cleanContent)>> >>)>>,
                        <<"use_encryption", JBool(FALSE)>>,
                        <<"labels", EmptyObject>> >>)
            ELSE IF isValidMnemonic(cleanContent)
            THEN Obj(<< <<"seed_version", JNum("17")>>,
                        <<"wallet_type", JStr("standard")>>,
                        <<"keystore", Obj(<< <<"type", JStr("bip39")>>,
                                             <<"seed", JStr(cleanContent)>>,
                                             <<"password", JNull>> >>)>>,
                        <<"use_encryption", JBool(FALSE)>>,
                        <<"labels", EmptyObject>> >>)
            ELSE IF isValidPrivateKey(cleanContent) \/ isValidWIF(cleanContent)
            THEN Obj(<< <<"seed_version", JNum("17")>>,
                        <<"wallet_type", JStr("imported")>>,
                        <<"keystore", Obj(<< <<"type", JStr("imported")>>,
                                             <<"keypairs", Obj(<< <<"imported_address", JStr(cleanContent)>> >>)>> >>)>>,
                        <<"use_encryption", JBool(FALSE)>>,
                        <<"labels", EmptyObject>> >>)
            ELSE Obj(<< <<"seed_version", JNum("17")>>,
                        <<"wallet_type", JStr("standard")>>,
                        <<"keystore", Obj(<< <<"type", JStr("imported")>>,
                                             <<"keypairs", Obj(<< <<"imported_address", JStr(cleanContent)>> >>)>> >>)>>,
                        <<"use_encryption", JBool(FALSE)>>,
                        <<"labels", EmptyObject>>,
                        <<"transactions", EmptyObject>> >>)
    IN  Ret(StringifyPretty(Wallet(CleanContent(rawContent))))

createNewWallet(rawContent) ==
    LET Wallet(cleanContent) ==
            IF isValidMnemonic(cleanContent)
            THEN Obj(<< <<"seed_version", JNum("17")>>,
                        <<"wallet_type", JStr("standard")>>,
                        <<"keystore", Obj(<< <<"type", JStr("bip39")>>,
                                             <<"seed", JStr(cleanContent)>>,
                                             <<"password", JNull>> >>)>>,
                        <<"use_encryption", JBool(FALSE)>>,
                        <<"labels", EmptyObject>> >>)
            ELSE IF isValidPrivateKey(cleanContent) \/ isValidWIF(cleanContent)
            THEN Obj(<< <<"seed_version", JNum("17")>>,
                        <<"wallet_type", JStr("imported")>>,
                        <<"keystore", Obj(<< <<"type", JStr("imported")>>,
                                             <<"keypairs", Obj(<< <<"imported_address", JStr(cleanContent)>> >>)>> >>)>>,
                        <<"use_encryption", JBool(FALSE)>>,
                        <<"labels", EmptyObject>> >>)
            ELSE IF isValidExtendedKey(cleanContent)
            THEN Obj(<< <<"seed_version", JNum("17")>>,
                        <<"wallet_type", JStr("standard")>>,
                        <<"keystore", Obj(<< <<"type", JStr("bip32")>>,
                                             <<"xpub", JStr(cleanContent)>> >>)>>,
                        <<"use_encryption", JBool(FALSE)>>,
                        <<"labels", EmptyObject>> >>)
            ELSE Obj(<< <<"seed_version", JNum("17")>>,
                        <<"wallet_type", JStr("standard")>>,
                        <<"keystore", Obj(<< <<"type", JStr("imported")>>,
                                             <<"keypairs", Obj(<< <<"imported_address", JStr(cleanContent)>> >>)>> >>)>>,
                        <<"use_encryption", JBool(FALSE)>>,
                        <<"labels", EmptyObject>>,
                        <<"transactions", EmptyObject>> >>)
    IN  Ret(StringifyPretty(Wallet(CleanContent(rawContent))))

\* transformExistingWallet without the pass-through of a tagged wallet
RewrapExistingWallet(walletContent) ==
    LET Transform(ok, wallet) ==
            IF ~ok \/ ThrowsOnRead(wallet) THEN Thrown
            ELSE createNewWallet(Stringify(wallet))
    IN  Transform(JsonParse(walletContent).ok, JsonParse(walletContent).v)

transformExistingWallet(walletContent) ==
    LET Transform(ok, wallet) ==
            IF ~ok \/ ThrowsOnRead(wallet) THEN Thrown
            ELSE IF Truthy(Get(wallet, "wallet_type")) THEN Ret(StringifyPretty(wallet))
            ELSE createNewWallet(Stringify(wallet))
    IN  Transform(JsonParse(walletContent).ok, JsonParse(walletContent).v)

createElectrumWalletFromData(data) ==
    LET Wallet(seed, key, xkey) ==
          LET walletType == IF ~Truthy(seed) /\ Truthy(key) THEN "imported" ELSE "standard"
              keystore ==
            IF Truthy(seed)
            THEN Obj(<< <<"type", JStr("bip39")>>, <<"seed", seed>>, <<"password", JNull>> >>)
            ELSE IF Truthy(key)
            THEN Obj(<< <<"type", JStr("imported")>>,
                        <<"keypairs", Obj(<< <<"imported_address", key>> >>)>> >>)
            ELSE IF Truthy(xkey)
            THEN Obj(<< <<"type", JStr("bip32")>>,
                        <<"xpub", OrElse(Get(data, "xpub"), JStr(""))>>,
                        <<"xprv", OrElse(Get(data, "xprv"), JStr(""))>> >>)
            ELSE Obj(<< <<"type", JStr("bip39")>> >>)
          IN  Obj(<< <<"seed_version", JNum("17")>>,
                     <<"wallet_type", JStr(walletType)>>,
                     <<"keystore", keystore>>,
                     <<"use_encryption", JBool(FALSE)>>,
                     <<"labels", EmptyObject>> >>)
    IN  IF ThrowsOnRead(data) THEN Thrown
        ELSE Ret(StringifyPretty(Wallet(
                OrElse(Get(data, "mnemonic"), OrElse(Get(data, "seed"), Get(data, "seedPhrase"))),
                OrElse(Get(data, "privateKey"), Get(data, "private_key")),
                OrElse(Get(data, "xprv"), Get(data, "xpub")))))

createElectrumWalletFromSeed(seed) ==
    LET Wallet(cleanContent) ==
            IF isValidMnemonic(cleanContent)
            THEN Obj(<< <<"seed_version", JNum("17")>>,
                        <<"wallet_type", JStr("standard")>>,
                        <<"keystore", Obj(<< <<"type", JStr("bip39")>>,
                                             <<"seed", JStr(cleanContent)>>,
                                             <<"password", JNull>> >>)>>,
                        <<"use_encryption", JBool(FALSE)>>,
                        <<"labels", EmptyObject>> >>)
            ELSE IF isValidPrivateKey(cleanContent) \/ isValidWIF(cleanContent)
            THEN Obj(<< <<"seed_version", JNum("17")>>,
                        <<"wallet_type", JStr("imported")>>,
                        <<"keystore", Obj(<< <<"type", JStr("imported")>>,
                                             <<"keypairs", Obj(<< <<"imported_address", JStr(cleanContent)>> >>)>> >>)>>,
                        <<"use_encryption", JBool(FALSE)>>,
                        <<"labels", EmptyObject>> >>)
            ELSE IF isValidExtendedKey(cleanContent)
            THEN Obj(<< <<"seed_version", JNum("17")>>,
                        <<"wallet_type", JStr("standard")>>,
                        <<"keystore", Obj(<< <<"type", JStr("bip32")>>,
                                             <<"xpub", JStr(cleanContent)>> >>)>>,
                        <<"use_encryption", JBool(FALSE)>>,
                        <<"labels", EmptyObject>> >>)
            ELSE Obj(<< <<"seed_version", JNum("17")>>,
                        <<"wallet_type", JStr("standard")>>,
                        <<"keystore", Obj(<< <<"type", JStr("imported")>>,
                                             <<"keypairs", Obj(<< <<"imported_address", JStr(cleanContent)>> >>)>> >>)>>,
                        <<"use_encryption", JBool(FALSE)>>,
                        <<"labels", EmptyObject>> >>)
    IN  Ret(StringifyPretty(Wallet(CleanContent(seed))))

buildElectrumWallet(fileContent) ==
    LET FromJson(ok, parsed) ==
            IF ~ok \/ ThrowsOnRead(parsed) THEN Thrown
            ELSE IF Truthy(AndAlso(Get(parsed, "wallet_type"), Get(parsed, "seed_version")))
            THEN Ret(StringifyPretty(parsed))
            ELSE createElectrumWalletFromData(parsed)
    IN  TryCatch(FromJson(JsonParse(fileContent).ok, JsonParse(fileContent).v),
                 createElectrumWalletFromSeed(fileContent))

\* the crypto object of the MetaMask and Trust Wallet documents
KeystoreCrypto(ciphertext) ==
    Obj(<< <<"ciphertext", JStr(ciphertext)>>,
           <<"cipherparams", Obj(<< <<"iv", JStr("placeholder-iv")>> >>)>>,
           <<"cipher", JStr("aes-128-ctr")>>,
           <<"kdf", JStr("scrypt")>>,
           <<"kdfparams", Obj(<< <<"dklen", JNum("32")>>,
                                 <<"salt", JStr("placeholder-salt")>>,
                                 <<"n", JNum("8192")>>,
                                 <<"r", JNum("8")>>,
                                 <<"p", JNum("1")>> >>)>>,
           <<"mac", JStr("placeholder-mac")>> >>)

createMetamaskWalletFromData(data, env) ==
    IF ThrowsOnRead(data) THEN Thrown
    ELSE Ret(StringifyPretty(Obj(<< <<"version", JNum("3")>>,
                                    <<"id", JStr(generateRandomId(env))>>,
                                    <<"address", extractAddressFromData(data)>>,
                                    <<"crypto", KeystoreCrypto("placeholder-encrypted-data")>> >>)))

createMetamaskWalletFromSeed(seed, env) ==
    Ret(StringifyPretty(Obj(<< <<"version", JNum("3")>>,
                               <<"id", JStr(generateRandomId(env))>>,
                               <<"address", JStr("placeholder-ethereum-address")>>,
                               <<"crypto", KeystoreCrypto("placeholder-encrypted-data")>> >>)))

buildMetamaskWallet(fileContent, env) ==
    LET FromJson(ok, parsed) ==
            IF ~ok \/ ThrowsOnRead(parsed) THEN Thrown
            ELSE IF Truthy(OrElse(Get(parsed, "crypto"), Get(parsed, "Crypto")))
            THEN Ret(StringifyPretty(parsed))
            ELSE createMetamaskWalletFromData(parsed, env)
    IN  TryCatch(FromJson(JsonParse(fileContent).ok, JsonParse(fileContent).v),
                 createMetamaskWalletFromSeed(fileContent, env))

ExodusWallets ==
    Obj(<< <<"bitcoin", Obj(<< <<"type", JStr("bitcoin")>>, <<"status", JStr("active")>> >>)>>,
           <<"ethereum", Obj(<< <<"type", JStr("ethereum")>>, <<"status", JStr("active")>> >>)>>,
           <<"litecoin", Obj(<< <<"type", JStr("litecoin")>>, <<"status", JStr("active")>> >>)>> >>)

createExodusWalletFromData(data) ==
    IF ThrowsOnRead(data) THEN Thrown
    ELSE Ret(StringifyPretty(Obj(<< <<"exodus", Obj(<< <<"version", JStr("2.0.0")>>,
                                                       <<"seed", extractSeedFromData(data)>>,
                                                       <<"wallets", ExodusWallets>> >>)>> >>)))

createExodusWalletFromSeed(seed) ==
    Ret(StringifyPretty(Obj(<< <<"exodus", Obj(<< <<"version", JStr("2.0.0")>>,
                                                  <<"seed", Obj(<< <<"encrypted", JBool(FALSE)>>,
                                                                   <<"value", JStr(Trim(seed))>> >>)>>,
                                                  <<"wallets", ExodusWallets>> >>)>> >>)))

buildExodusWallet(fileContent) ==
    LET FromJson(ok, parsed) ==
            IF ~ok \/ ThrowsOnRead(parsed) THEN Thrown
            ELSE IF Truthy(Get(parsed, "exodus"))
            THEN Ret(StringifyPretty(parsed))
            ELSE createExodusWalletFromData(parsed)
    IN  TryCatch(FromJson(JsonParse(fileContent).ok, JsonParse(fileContent).v),
                 createExodusWalletFromSeed(fileContent))

createGenericWalletFromSeed(seed, env) ==
    LET Wallet(cleanContent, cryptoType, mnemonic, key, extended) ==
            Obj(<< <<"walletInfo", Obj(<< <<"version", JStr("1.0.0")>>,
                                          <<"created", JStr(env.iso)>>,
                                          <<"type", JStr(cryptoType)>> >>)>>,
                   <<"crypto", Obj(<< <<"seedPhrase", IF mnemonic THEN JStr(cleanContent) ELSE JNull>>,
                                      <<"privateKey", IF key THEN JStr(cleanContent) ELSE JNull>>,
                                      <<"extendedKey", IF extended THEN JStr(cleanContent) ELSE JNull>>,
                                      <<"format", JStr(cryptoType)>> >>)>> >>)
        Clean(cleanContent) ==
            Wallet(cleanContent, detectCryptoType(cleanContent), isValidMnemonic(cleanContent),
                   isValidPrivateKey(cleanContent) \/ isValidWIF(cleanContent),
                   isValidExtendedKey(cleanContent))
    IN  Ret(StringifyPretty(Clean(CleanContent(seed))))

buildGenericJsonWallet(fileContent, env) ==
    LET FromJson(ok, parsed) == IF ~ok THEN Thrown ELSE Ret(StringifyPretty(parsed))
    IN  TryCatch(FromJson(JsonParse(fileContent).ok, JsonParse(fileContent).v),
                 createGenericWalletFromSeed(fileContent, env))

CoinbaseWallet(env, address, key) ==
    Obj(<< <<"version", JNum("1")>>,
           <<"id", JStr(generateRandomId(env))>>,
           <<"name", JStr("Imported Wallet")>>,
           <<"walletType", JStr("coinbase")>>,
           <<"encrypted", JBool(FALSE)>>,
           <<"accounts", JArr(<< Obj(<< <<"name", JStr("Main Account")>>,
                                        <<"coinType", JStr("eth")>>,
                                        <<"index", JNum("0")>>,
                                        <<"address", address>>,
                                        <<"key", key>> >>) >>)>>,
           <<"features", Obj(<< <<"testnet", JBool(FALSE)>> >>)>> >>)

createCoinbaseWalletFromData(data, env) ==
    IF ThrowsOnRead(data) THEN Thrown
    ELSE Ret(StringifyPretty(CoinbaseWallet(env, extractAddressFromData(data), extractSeedFromData(data))))

createCoinbaseWalletFromSeed(seed, env) ==
    LET cleanContent == CleanContent(seed)
    IN  Ret(StringifyPretty(CoinbaseWallet(env, JStr("placeholder-address"),
            Obj(<< <<"type", JStr(IF isValidMnemonic(cleanContent) THEN "mnemonic" ELSE "private")>>,
                   <<"value", JStr(cleanContent)>> >>))))

buildCoinbaseWallet(fileContent, env) ==
    LET FromJson(ok, parsed) == IF ~ok THEN Thrown ELSE createCoinbaseWalletFromData(parsed, env)
    IN  TryCatch(FromJson(JsonParse(fileContent).ok, JsonParse(fileContent).v),
                 createCoinbaseWalletFromSeed(fileContent, env))

BinanceSettings == Obj(<< <<"currency", JStr("USD")>>, <<"language", JStr("en")>> >>)

createBinanceWalletFromData(data, env) ==
    IF ThrowsOnRead(data) THEN Thrown
    ELSE Ret(StringifyPretty(Obj(<<
            <<"version", JStr("1.0")>>,
            <<"walletType", JStr("binance")>>,
            <<"timestamp", JStr(env.iso)>>,
            <<"accounts", JArr(<< Obj(<< <<"accountType", JStr("imported")>>,
                                         <<"address", extractAddressFromData(data)>>,
                                         <<"derivationPath", JStr("m/44'/60'/0'/0/0")>>,
                                         <<"encryptedKey", JStr("placeholder-encrypted-key")>>,
                                         <<"publicKey", JStr("placeholder-public-key")>> >>) >>)>>,
            <<"settings", BinanceSettings>> >>)))

createBinanceWalletFromSeed(seed, env) ==
    LET cleanContent == CleanContent(seed)
    IN  Ret(StringifyPretty(Obj(<<
            <<"version", JStr("1.0")>>,
            <<"walletType", JStr("binance")>>,
            <<"timestamp", JStr(env.iso)>>,
            <<"accounts", JArr(<< Obj(<<
                <<"accountType", JStr(IF isValidMnemonic(cleanContent) THEN "mnemonic" ELSE "privateKey")>>,
                <<"keyData", JStr(cleanContent)>>,
                <<"derivationPath", JStr("m/44'/60'/0'/0/0")>>,
                <<"address", JStr("placeholder-address")>>,
                <<"publicKey", JStr("placeholder-public-key")>> >>) >>)>>,
            <<"settings", BinanceSettings>> >>)))

buildBinanceWallet(fileContent, env) ==
    LET FromJson(ok, parsed) == IF ~ok THEN Thrown ELSE createBinanceWalletFromData(parsed, env)
    IN  TryCatch(FromJson(JsonParse(fileContent).ok, JsonParse(fileContent).v),
                 createBinanceWalletFromSeed(fileContent, env))

TrezorWallet(env, mnemonicSeed) ==
    Obj(<< <<"version", JNum("1")>>,
           <<"device", Obj(<< <<"vendor", JStr("trezor.io")>>,
                              <<"model", JStr("Trezor Model T")>>,
                              <<"deviceId", JStr(generateRandomId(env))>> >>)>>,
           <<"mnemonicSeed", mnemonicSeed>>,
           <<"passphrase", JStr("")>>,
           <<"accounts", JArr(<< Obj(<< <<"path", JStr("m/44'/0'/0'")>>,
                                        <<"coin", JStr("btc")>>,
                                        <<"accountIndex", JNum("0")>>,
                                        <<"xpub", JStr("placeholder-xpub")>> >>),
                                 Obj(<< <<"path", JStr("m/44'/60'/0'")>>,
                                        <<"coin", JStr("eth")>>,
                                        <<"accountIndex", JNum("0")>>,
                                        <<"xpub", JStr("placeholder-xpub")>> >>) >>)>> >>)

createTrezorWalletFromData(data, env) ==
    IF ThrowsOnRead(data) THEN Thrown
    ELSE Ret(StringifyPretty(TrezorWallet(env, extractSeedFromData(data))))

createTrezorWalletFromSeed(seed, env) ==
    LET Wallet(cleanContent, fallback) ==
            IF isValidMnemonic(cleanContent)
            THEN Ret(StringifyPretty(TrezorWallet(env, JStr(cleanContent))))
            ELSE fallback
    IN  Wallet(CleanContent(seed), createNewWallet(CleanContent(seed)))

buildTrezorWallet(fileContent, env) ==
    LET FromJson(ok, parsed) == IF ~ok THEN Thrown ELSE createTrezorWalletFromData(parsed, env)
    IN  TryCatch(FromJson(JsonParse(fileContent).ok, JsonParse(fileContent).v),
                 createTrezorWalletFromSeed(fileContent, env))

LedgerWallet(env) ==
    Obj(<< <<"version", JStr("1.0.0")>>,
           <<"device", Obj(<< <<"vendor", JStr("ledger.com")>>,
                              <<"model", JStr("Nano S")>>,
                              <<"deviceId", JStr(generateRandomId(env))>> >>)>>,
           <<"accounts", JArr(<<
               Obj(<< <<"derivationPath", JStr("m/44'/0'/0'")>>,
                      <<"coin", JStr("bitcoin")>>,
                      <<"xpub", JStr("placeholder-xpub")>>,
                      <<"addresses", JArr(<< Obj(<< <<"index", JNum("0")>>,
                                                    <<"path", JStr("m/44'/0'/0'/0/0")>>,
                                                    <<"address", JStr("placeholder-btc-address")>> >>) >>)>> >>),
               Obj(<< <<"derivationPath", JStr("m/44'/60'/0'")>>,
                      <<"coin", JStr("ethereum")>>,
                      <<"xpub", JStr("placeholder-xpub")>>,
                      <<"addresses", JArr(<< Obj(<< <<"index", JNum("0")>>,
                                                    <<"path", JStr("m/44'/60'/0'/0/0")>>,
                                                    <<"address", JStr("placeholder-eth-address")>> >>) >>)>> >>) >>)>> >>)

createLedgerWalletFromData(data, env) == Ret(StringifyPretty(LedgerWallet(env)))

createLedgerWalletFromSeed(seed, env) == Ret(StringifyPretty(LedgerWallet(env)))

buildLedgerWallet(fileContent, env) ==
    LET FromJson(ok, parsed) == IF ~ok THEN Thrown ELSE createLedgerWalletFromData(parsed, env)
    IN  TryCatch(FromJson(JsonParse(fileContent).ok, JsonParse(fileContent).v),
                 createLedgerWalletFromSeed(fileContent, env))

TrustWalletDoc(env, ethAddress, backupType) ==
    Obj(<< <<"version", JNum("3")>>,
           <<"id", JStr(generateRandomId(env))>>,
           <<"crypto", KeystoreCrypto("placeholder-ciphertext")>>,
           <<"activeAccounts", JArr(<< Obj(<< <<"coin", JStr("ethereum")>>, <<"address", ethAddress>> >>),
                                       Obj(<< <<"coin", JStr("bitcoin")>>,
                                              <<"address", JStr("placeholder-btc-address")>> >>) >>)>>,
           <<"metadata", Obj(<< <<"name", JStr("Imported Wallet")>>,
                                <<"backupType", JStr(backupType)>>,
                                <<"timestamp", JStr(env.iso)>> >>)>> >>)

createTrustWalletFromData(data, env) ==
    IF ThrowsOnRead(data) THEN Thrown
    ELSE Ret(StringifyPretty(TrustWalletDoc(env, extractAddressFromData(data), "mnemonic")))

\* createTrustWalletFromSeed storing the secret as the ciphertext
createTrustWalletFromSeedStored(seed, env) ==
    LET Stored(doc) == [doc EXCEPT !.a[3].a[1] = JStr(CleanContent(seed))]
    IN  Ret(StringifyPretty(Stored(TrustWalletDoc(env, JStr("placeholder-eth-address"),
                                                  "privateKey"))))

createTrustWalletFromSeed(seed, env) ==
    LET cleanContent == CleanContent(seed)
    IN  Ret(StringifyPretty(TrustWalletDoc(env, JStr("placeholder-eth-address"),
                                           IF isValidMnemonic(cleanContent) THEN "mnemonic" ELSE "privateKey")))

buildTrustWallet(fileContent, env) ==
    LET FromJson(ok, parsed) == IF ~ok THEN Thrown ELSE createTrustWalletFromData(parsed, env)
    IN  TryCatch(FromJson(JsonParse(fileContent).ok, JsonParse(fileContent).v),
                 createTrustWalletFromSeed(fileContent, env))

MyceliumWallet(env, accountType, privateData) ==
    Obj(<< <<"formatVersion", JNum("1")>>,
           <<"walletType", JStr("mycelium")>>,
           <<"accounts", JArr(<< Obj(<< <<"archived", JBool(FALSE)>>,
                                        <<"label", JStr("Imported Account")>>,
                                        <<"accountType", JStr(accountType)>>,
                                        <<"addressType", JStr("P2PKH")>>,
                                        <<"privateData", privateData>> >>) >>)>>,
           <<"settings", Obj(<< <<"lastBackup", JNum(env.ms)>>,
                                <<"localCurrency", JStr("USD")>> >>)>> >>)

createMyceliumWalletFromData(data, env) ==
    IF ThrowsOnRead(data) THEN Thrown
    ELSE Ret(StringifyPretty(MyceliumWallet(env, "imported",
                                            Obj(<< <<"privateKey", extractSeedFromData(data)>> >>))))

createMyceliumWalletFromSeed(seed, env) ==
    LET Wallet(cleanContent) ==
            IF isValidMnemonic(cleanContent)
            THEN MyceliumWallet(env, "bip44", Obj(<< <<"mnemonic", JStr(cleanContent)>> >>))
            ELSE MyceliumWallet(env, "imported", Obj(<< <<"privateKey", JStr(cleanContent)>> >>))
    IN  Ret(StringifyPretty(Wallet(CleanContent(seed))))

buildMyceliumWallet(fileContent, env) ==
    LET FromJson(ok, parsed) == IF ~ok THEN Thrown ELSE createMyceliumWalletFromData(parsed, env)
    IN  TryCatch(FromJson(JsonParse(fileContent).ok, JsonParse(fileContent).v),
                 createMyceliumWalletFromSeed(fileContent, env))

\* the twelve ids of WalletFormat, in the order of the 'generate all formats' list
Formats ==
    <<"wallet", "dat", "json", "electrum", "metamask", "exodus",
      "trezor", "ledger", "coinbase", "binance", "trustwallet", "mycelium">>

FormatIds == {Formats[i] : i \in 1..Len(Formats)}

\* the switch of the try block of buildWallet
BuildStructured(fileContent, fmt, env) ==
    CASE fmt = "electrum" -> buildElectrumWallet(fileContent)
      [] fmt = "exodus" -> buildExodusWallet(fileContent)
      [] fmt = "metamask" -> buildMetamaskWallet(fileContent, env)
      [] fmt = "coinbase" -> buildCoinbaseWallet(fileContent, env)
      [] fmt = "binance" -> buildBinanceWallet(fileContent, env)
      [] fmt = "trezor" -> buildTrezorWallet(fileContent, env)
      [] fmt = "ledger" -> buildLedgerWallet(fileContent, env)
      [] fmt = "trustwallet" -> buildTrustWallet(fileContent, env)
      [] fmt = "mycelium" -> buildMyceliumWallet(fileContent, env)
      [] fmt = "json" -> buildGenericJsonWallet(fileContent, env)
      [] OTHER -> transformExistingWallet(fileContent)

\* BuildRaw with 'wallet' falling through to the generic document, which
\* records the time of its creation
BuildRawStamped(fileContent, fmt, env) ==
    CASE fmt = "electrum" -> buildElectrumWallet(fileContent)
      [] fmt = "exodus" -> buildExodusWallet(fileContent)
      [] fmt = "metamask" -> buildMetamaskWallet(fileContent, env)
      [] fmt = "coinbase" -> buildCoinbaseWallet(fileContent, env)
      [] fmt = "binance" -> buildBinanceWallet(fileContent, env)
      [] fmt = "trezor" -> buildTrezorWallet(fileContent, env)
      [] fmt = "ledger" -> buildLedgerWallet(fileContent, env)
      [] fmt = "trustwallet" -> buildTrustWallet(fileContent, env)
      [] fmt = "mycelium" -> buildMyceliumWallet(fileContent, env)
      [] OTHER -> buildGenericJsonWallet(fileContent, env)

\* the switch of the catch block of buildWallet
BuildRaw(fileContent, fmt, env) ==
    CASE fmt = "electrum" -> buildElectrumWallet(fileContent)
      [] fmt = "exodus" -> buildExodusWallet(fileContent)
      [] fmt = "metamask" -> buildMetamaskWallet(fileContent, env)
      [] fmt = "coinbase" -> buildCoinbaseWallet(fileContent, env)
      [] fmt = "binance" -> buildBinanceWallet(fileContent, env)
      [] fmt = "trezor" -> buildTrezorWallet(fileContent, env)
      [] fmt = "ledger" -> buildLedgerWallet(fileContent, env)
      [] fmt = "trustwallet" -> buildTrustWallet(fileContent, env)
      [] fmt = "mycelium" -> buildMyceliumWallet(fileContent, env)
      [] fmt = "json" -> buildGenericJsonWallet(fileContent, env)
      [] OTHER -> createNewWallet(fileContent)

buildWallet(fileContent, fmt, env) ==
    TryCatch(IF ~JsonParse(fileContent).ok THEN Thrown ELSE BuildStructured(fileContent, fmt, env),
             BuildRaw(fileContent, fmt, env))

\* the characters with the codes 32 to 95, in the order of their codes
AsciiLow ==
    " !\"#$%&'()*+,-./0123456789:;<=>?@ABCDEFGHIJKLMNOPQRSTUVWXYZ[\\]^_"

\* the characters with the codes 97 to 126, in the order of their codes
AsciiHigh == "abcdefghijklmnopqrstuvwxyz{|}~"

\* the codes of the characters of s from position i on, the first base + i
RECURSIVE CodesFrom(_, _, _)
CodesFrom(s, i, base) ==
    IF i >= Len(s) THEN Ch(s, i) :> base + i
    ELSE (Ch(s, i) :> base + i) @@ CodesFrom(s, i + 1, base)

\* the UTF-8 encoding of each character of the model's universe: one byte
CodeTable ==
    ("\t" :> 9) @@ ("\n" :> 10) @@ ("\f" :> 12) @@ ("\r" :> 13)
        @@ CodesFrom(AsciiLow, 1, 31) @@ CodesFrom(AsciiHigh, 1, 96)

CodeOf(c) == CodeTable[c]

\* new TextEncoder().encode(text), as a sequence of bytes
Utf8Encode(text) == [i \in 1..Len(text) |-> CodeOf(Ch(text, i))]

\* buildWalletDat with a terminating zero byte after the text
buildWalletDatTerminated(fileContent, env) ==
    LET Encode(walletData) == Append(Utf8Encode(walletData.text), 0)
    IN  Encode(buildWallet(fileContent, "wallet", env))

buildWalletDat(fileContent, env) ==
    LET Encode(walletData) == Utf8Encode(walletData.text)
    IN  Encode(buildWallet(fileContent, "wallet", env))

(***************************************************************************)
(* Format synthesizer: the extension's copy (wallet-builder.js)            *)
(***************************************************************************)
Ext_createNewWallet(rawContent) ==
    LET Wallet(cleanContent) ==
            IF Ext_isValidMnemonic(cleanContent)
            THEN Obj(<< <<"seed_version", JNum("17")>>,
                        <<"wallet_type", JStr("standard")>>,
                        <<"keystore", Obj(<< <<"type", JStr("bip39")>>,
                                             <<"seed", JStr(cleanContent)>>,
                                             <<"password", JNull>> >>)>>,
                        <<"use_encryption", JBool(FALSE)>>,
                        <<"labels", EmptyObject>> >>)
            ELSE IF Ext_isValidPrivateKey(cleanContent) \/ Ext_isValidWIF(cleanContent)
            THEN Obj(<< <<"seed_version", JNum("17")>>,
                        <<"wallet_type", JStr("imported")>>,
                        <<"keystore", Obj(<< <<"type", JStr("imported")>>,
                                             <<"keypairs", Obj(<< <<"imported_address", JStr(cleanContent)>> >>)>> >>)>>,
                        <<"use_encryption", JBool(FALSE)>>,
                        <<"labels", EmptyObject>> >>)
            ELSE IF Ext_isValidExtendedKey(cleanContent)
            THEN Obj(<< <<"seed_version", JNum("17")>>,
                        <<"wallet_type", JStr("standard")>>,
                        <<"keystore", Obj(<< <<"type", JStr("bip32")>>,
                                             <<"xpub", JStr(cleanContent)>> >>)>>,
                        <<"use_encryption", JBool(FALSE)>>,
                        <<"labels", EmptyObject>> >>)
            ELSE Obj(<< <<"seed_version", JNum("17")>>,
                        <<"wallet_type", JStr("standard")>>,
                        <<"keystore", Obj(<< <<"type", JStr("imported")>>,
                                             <<"keypairs", Obj(<< <<"imported_address", JStr(cleanContent)>> >>)>> >>)>>,
                        <<"use_encryption", JBool(FALSE)>>,
                        <<"labels", EmptyObject>> >>)
    IN  Ret(StringifyPretty(Wallet(CleanContent(rawContent))))

Ext_buildWallet(fileContent) ==
    LET FromJson(ok, parsed) ==
            IF ~ok \/ ThrowsOnRead(parsed) THEN Thrown
            ELSE IF Truthy(Get(parsed, "wallet_type")) THEN Ret(StringifyPretty(parsed))
            ELSE Ext_createNewWallet(Stringify(parsed))
    IN  TryCatch(FromJson(JsonParse(Trim(fileContent)).ok, JsonParse(Trim(fileContent)).v),
                 Ext_createNewWallet(Trim(fileContent)))

Ext_buildWalletDat(fileContent) ==
    LET Encode(walletData) == Utf8Encode(walletData.text)
    IN  Encode(Ext_buildWallet(fileContent))

(***************************************************************************)
(* Format descriptors (App.tsx, FileInfo.tsx)                              *)
(***************************************************************************)
\* the type WalletFormat
WalletFormat ==
    {"wallet", "dat", "json", "electrum", "metamask", "exodus",
     "trezor", "ledger", "coinbase", "binance", "trustwallet", "mycelium"}

\* FORMAT_INFO of App.tsx
App_FORMAT_INFO ==
    ("wallet" :> [extension |-> ".wallet", name |-> "Wallet (Generic)",
            description |-> "Standard wallet format compatible with most wallets",
            mimeType |-> "application/json", category |-> "basic"])
    @@ ("dat" :> [extension |-> ".dat", name |-> "Bitcoin Core",
            description |-> "Compatible with Bitcoin Core wallet.dat format",
            mimeType |-> "application/octet-stream", category |-> "basic"])
    @@ ("json" :> [extension |-> ".json", name |-> "Generic JSON",
            description |-> "Standard JSON wallet compatible with many services",
            mimeType |-> "application/json", category |-> "basic"])
    @@ ("electrum" :> [extension |-> ".wallet", name |-> "Electrum Wallet",
            description |-> "Specialized format for Electrum Bitcoin wallet",
            mimeType |-> "application/json", category |-> "desktop"])
    @@ ("exodus" :> [extension |-> ".json", name |-> "Exodus Wallet",
            description |-> "Format compatible with Exodus multi-currency wallet",
            mimeType |-> "application/json", category |-> "desktop"])
    @@ ("mycelium" :> [extension |-> ".json", name |-> "Mycelium",
            description |-> "Bitcoin mobile wallet format for Android and iOS",
            mimeType |-> "application/json", category |-> "mobile"])
    @@ ("trezor" :> [extension |-> ".json", name |-> "Trezor Wallet",
            description |-> "Import format for Trezor hardware wallet",
            mimeType |-> "application/json", category |-> "hardware"])
    @@ ("ledger" :> [extension |-> ".json", name |-> "Ledger Wallet",
            description |-> "Import format for Ledger hardware wallet",
            mimeType |-> "application/json", category |-> "hardware"])
    @@ ("metamask" :> [extension |-> ".json", name |-> "MetaMask/Ethereum",
            description |-> "Compatible with MetaMask and other Ethereum wallets",
            mimeType |-> "application/json", category |-> "web"])
    @@ ("coinbase" :> [extension |-> ".json", name |-> "Coinbase Wallet",
            description |-> "Format for Coinbase Wallet (formerly Toshi)",
            mimeType |-> "application/json", category |-> "exchange"])
    @@ ("binance" :> [extension |-> ".json", name |-> "Binance Wallet",
            description |-> "Format compatible with Binance Chain wallet",
            mimeType |-> "application/json", category |-> "exchange"])
    @@ ("trustwallet" :> [extension |-> ".json", name |-> "Trust Wallet",
            description |-> "Multi-currency mobile wallet format",
            mimeType |-> "application/json", category |-> "mobile"])

\* FORMAT_INFO of FileInfo.tsx with the extension of 'electrum' out of step
FileInfo_FORMAT_INFO_Stale == [App_FORMAT_INFO EXCEPT !["electrum"].extension = ".json"]

\* FORMAT_INFO of FileInfo.tsx
FileInfo_FORMAT_INFO ==
    ("wallet" :> [extension |-> ".wallet", name |-> "Wallet (Generic)",
            description |-> "Standard wallet format compatible with most wallets",
            mimeType |-> "application/json", category |-> "basic"])
    @@ ("dat" :> [extension |-> ".dat", name |-> "Bitcoin Core",
            description |-> "Compatible with Bitcoin Core wallet.dat format",
            mimeType |-> "application/octet-stream", category |-> "basic"])
    @@ ("json" :> [extension |-> ".json", name |-> "Generic JSON",
            description |-> "Standard JSON wallet compatible with many services",
            mimeType |-> "application/json", category |-> "basic"])
    @@ ("electrum" :> [extension |-> ".wallet", name |-> "Electrum Wallet",
            description |-> "Specialized format for Electrum Bitcoin wallet",
            mimeType |-> "application/json", category |-> "desktop"])
    @@ ("exodus" :> [extension |-> ".json", name |-> "Exodus Wallet",
            description |-> "Format compatible with Exodus multi-currency wallet",
            mimeType |-> "application/json", category |-> "desktop"])
    @@ ("mycelium" :> [extension |-> ".json", name |-> "Mycelium",
            description |-> "Bitcoin mobile wallet format for Android and iOS",
            mimeType |-> "application/json", category |-> "mobile"])
    @@ ("trezor" :> [extension |-> ".json", name |-> "Trezor Wallet",
            description |-> "Import format for Trezor hardware wallet",
            mimeType |-> "application/json", category |-> "hardware"])
    @@ ("ledger" :> [extension |-> ".json", name |-> "Ledger Wallet",
            description |-> "Import format for Ledger hardware wallet",
            mimeType |-> "application/json", category |-> "hardware"])
    @@ ("metamask" :> [extension |-> ".json", name |-> "MetaMask/Ethereum",
            description |-> "Compatible with MetaMask and other Ethereum wallets",
            mimeType |-> "application/json", category |-> "web"])
    @@ ("coinbase" :> [extension |-> ".json", name |-> "Coinbase Wallet",
            description |-> "Format for Coinbase Wallet (formerly Toshi)",
            mimeType |-> "application/json", category |-> "exchange"])
    @@ ("binance" :> [extension |-> ".json", name |-> "Binance Wallet",
            description |-> "Format compatible with Binance Chain wallet",
            mimeType |-> "application/json", category |-> "exchange"])
    @@ ("trustwallet" :> [extension |-> ".json", name |-> "Trust Wallet",
            description |-> "Multi-currency mobile wallet format",
            mimeType |-> "application/json", category |-> "mobile"])

UpperCase == "ABCDEFGHIJKLMNOPQRSTUVWXYZ"

LowerCase == "abcdefghijklmnopqrstuvwxyz"

\* String.prototype.toLowerCase, for the letters A to Z
RECURSIVE toLowerCase(_)
toLowerCase(text) ==
    IF text = "" THEN ""
    ELSE LET at == FirstAt(UpperCase, 1, Len(UpperCase), {Ch(text, 1)}, TRUE)
         IN  (IF at <= Len(UpperCase) THEN Ch(LowerCase, at) ELSE Ch(text, 1))
                \o toLowerCase(Sub(text, 2, Len(text)))

\* FORMAT_INFO[format].name.toLowerCase().replace(/\s+/g, '-')
FormatName(fmt) == Join(SplitWords(toLowerCase(App_FORMAT_INFO[fmt].name)), "-")

\* FileName without the name of the format
FileNameByExtension(baseFilename, fmt) == baseFilename \o App_FORMAT_INFO[fmt].extension

\* the name of the file of a format in the archive
FileName(baseFilename, fmt) ==
    baseFilename \o "-" \o FormatName(fmt) \o App_FORMAT_INFO[fmt].extension

(***************************************************************************)
(* Size estimator (walletBuilder.ts and the extension's copy)              *)
(***************************************************************************)
\* Math.ceil(n * 1.15).  The double nearest 1.15 lies below 1.15 and the
\* product is rounded to nearest, so for the sizes of a file the result is
\* the ceiling of the exact product 115 n / 100.
\* Math.floor(n * 1.15), on the same grounds
FloorTimes115(n) == (n * 115) \div 100

CeilTimes115(n) == (n * 115 + 99) \div 100

\* whether the object v has a property of the given name, whatever its value
HasProperty(v, name) == v.t = "obj" /\ \E p \in 1..Len(v.k) : v.k[p] = name

\* estimateOutputSize adding the 200 when the wallet_type property is absent
\* rather than when its value is falsy
EstimateByPresence(fileContent, fmt) ==
    LET baseSize == Len(fileContent)
        walletOverhead == 500
        Size(ok, parsedContent, pretty) ==
            IF ok /\ ~ThrowsOnRead(parsedContent)
            THEN LET estimatedSize == IF HasProperty(parsedContent, "wallet_type") THEN pretty ELSE pretty + 200
                 IN  IF fmt = "dat" THEN CeilTimes115(estimatedSize) ELSE estimatedSize
            ELSE IF fmt = "dat" THEN CeilTimes115(baseSize + walletOverhead)
            ELSE baseSize + walletOverhead
        Try(r) == Size(r.ok, r.v, Len(StringifyPretty(r.v)))
    IN  Try(JsonParse(fileContent))

estimateOutputSize(fileContent, fmt) ==
    LET baseSize == Len(fileContent)
        walletOverhead == 500
        Size(ok, parsedContent, pretty) ==
            IF ok /\ ~ThrowsOnRead(parsedContent)
            THEN LET estimatedSize == IF Truthy(Get(parsedContent, "wallet_type")) THEN pretty ELSE pretty + 200
                 IN  IF fmt = "dat" THEN CeilTimes115(estimatedSize) ELSE estimatedSize
            ELSE IF fmt = "dat" THEN CeilTimes115(baseSize + walletOverhead)
            ELSE baseSize + walletOverhead
        Try(r) == Size(r.ok, r.v, Len(StringifyPretty(r.v)))
    IN  Try(JsonParse(fileContent))

Ext_estimateOutputSize(fileContent, fmt) ==
    LET baseSize == Len(fileContent)
        walletOverhead == 500
        Size(ok, parsed, pretty) ==
            IF ok /\ ~ThrowsOnRead(parsed)
            THEN LET estimatedSize == IF Truthy(Get(parsed, "wallet_type")) THEN pretty ELSE pretty + 200
                 IN  IF fmt = "dat" THEN CeilTimes115(estimatedSize) ELSE estimatedSize
            ELSE IF fmt = "dat" THEN CeilTimes115(baseSize + walletOverhead)
            ELSE baseSize + walletOverhead
        Try(r) == Size(r.ok, r.v, Len(StringifyPretty(r.v)))
    IN  Try(JsonParse(fileContent))

(***************************************************************************)
(* How the calls end (cryptoValidator, StatusMessages.tsx, walletBuilder)  *)
(***************************************************************************)
validateCryptoContent(text) ==
    LET Single(t) ==
            \/ isValidWalletJSON(t) \/ isValidWIF(t) \/ isValidPrivateKey(t)
            \/ isValidMnemonic(t) \/ isValidExtendedKey(t) \/ isValidEthereumAddress(t)
        \* what validateCryptoContent(line) gives for a line, which has no '\n'
        Lines(lines) == \E i \in 1..Len(lines) : Trim(lines[i]) # "" /\ Single(Trim(lines[i]))
    IN  Lines(SplitRuns(Trim(text), 1, {"\n"})) \/ Single(Trim(text))

\* String(b)
BoolText(b) == IF b THEN "true" ELSE "false"

\* JSON.parse(text) throws, or reading a property of what it gives does
RaisesOnParse(text) ==
    LET Test(ok, parsed) == ~ok \/ ThrowsOnRead(parsed)
    IN  Test(JsonParse(text).ok, JsonParse(text).v)

\* a body without the try block around it
Unguarded(raises, value) == IF raises THEN Thrown ELSE Ret(value)

\* try { body } catch (e) { }, where value is what the function returns on
\* the path taken
Guarded(raises, value) == TryCatch(IF raises THEN Thrown ELSE Ret(value), Ret(value))

\* a function outside any try block: what its calls raise leaves it
Propagate(calls, value) == IF \E c \in calls : c.thrown THEN Thrown ELSE Ret(value)

Call_isValidWalletJSON(text) == Guarded(RaisesOnParse(text), BoolText(isValidWalletJSON(text)))

Call_validateCryptoContent(text) ==
    LET lines == SplitRuns(Trim(text), 1, {"\n"})
    IN  Propagate({Call_isValidWalletJSON(Trim(lines[i])) : i \in 1..Len(lines)}
                        \cup {Call_isValidWalletJSON(Trim(text))},
                  BoolText(validateCryptoContent(text)))

Call_detectCryptoContentType(text) ==
    Propagate({Call_isValidWalletJSON(Trim(text))}, detectCryptoContentType(text))

Call_detectEntryType(text) == Guarded(~JsonParse(Trim(text)).ok, detectEntryType(text))

Call_detectWalletEntries(text) ==
    LET lines == SplitLines(text)
        Count(found) == NatToStr(Len(found))
    IN  Propagate({Guarded(RaisesOnParse(text), "json")}
                        \cup {Call_detectEntryType(lines[i]) : i \in 1..Len(lines)}
                        \cup {Call_detectEntryType(text)},
                  Count(detectWalletEntries(text)))

Call_estimateOutputSize(fileContent, fmt) ==
    Guarded(RaisesOnParse(fileContent), NatToStr(estimateOutputSize(fileContent, fmt)))

\* the calls whose ends are recorded
Calls ==
    {"isValidWalletJSON", "validateCryptoContent", "detectCryptoContentType",
     "detectWalletEntries", "estimateOutputSize"}

(***************************************************************************)
(* Inputs: the texts and formats the operations are applied to             *)
(***************************************************************************)
\* the longest file of the line-oriented inputs, in lines
MaxLines == 3

\* the longest JSON array or wallets collection of the inputs, in elements
MaxItems == 2

\* the widest white-space padding put around a classified text
MaxPad == 1

\* the longest raw text whose size is estimated
MaxTextLen == 45

SeqsUpTo(S, n) == UNION {[1..k -> S] : k \in 0..n}

\* 64 hexadecimal characters
KeyHex == Repeat("a1", 32)

\* 64 decimal digits, which are also a JSON number
KeyDecimal == "1" \o Repeat("0", 63)

\* 64 hexadecimal characters that read as a JSON number with an exponent
KeyExponent == "1e" \o Repeat("0", 62)

KeyZeros == Repeat("0", 64)

Mnemonic12 ==
    "abandon abandon abandon abandon abandon abandon abandon abandon abandon abandon abandon about"

\* the same twelve words on two lines and on three, with white space around
MnemonicTwoLines ==
    "  abandon abandon abandon abandon abandon abandon\r\nabandon abandon abandon abandon abandon about\n"

MnemonicThreeLines ==
    "abandon abandon abandon abandon\n\nabandon abandon abandon abandon\nabandon abandon abandon about"

\* twelve words separated by tabs, with white space around
MnemonicTabs == "\tk j i h g f\te d c b a x "

Wif51 == "5HueCGU8rMjxEXxiPuD5BDku4MkFqeZyd4dZ1jvhTVqvbTLvyTJ"

Wif52 == "KwDiBf89QgGbjEhKnhXJuH7LrciVrZi3qYjgd9M7rFU73sVHnoWn"

EthAddress == Repeat("Ab", 20)

ExtendedKey == "xpub661MyMwAqRbcFtXgS5sYJABqqG9YLmC4Q1Rdap9gSE8NqtwybGhePY2gZ29ESFjqJo"

\* the lines the line-oriented files are made of
LineAtoms == {"# note", "// note", "{", "}", "{\"a\": 1}", "plain text", KeyHex, "  "}

LineSeparators == {"\n", "\r\n"}

LineFiles ==
    {Join(ls, sep) : ls \in (SeqsUpTo(LineAtoms, MaxLines) \ {<<>>}), sep \in LineSeparators}

\* the elements of the JSON arrays and wallets collections
JsonAtoms == {"1.50", "\"s\"", "{ \"a\" : 1 }", "[2, 3]", "null", "{\"wallets\":[]}"}

\* the property names of a wallets object, by position: plain names, array
\* indices after a plain name and out of order, a repeated name
KeySchemes == {<<"b", "a", "c">>, <<"b", "1", "0">>, <<"k", "k", "j">>}

ArrayText(items) == "[" \o Join(items, ", ") \o "]"

ObjectText(names, items) ==
    "{" \o Join([i \in 1..Len(items) |-> Quote(names[i]) \o ": " \o items[i]], ",") \o "}"

ItemSeqs == SeqsUpTo(JsonAtoms, MaxItems)

WalletsArrayText(items) == "{\"wallets\": " \o ArrayText(items) \o "}"

WalletsObjectText(names, items) == "{\"n\": 1, \"wallets\": " \o ObjectText(names, items) \o "}"

ArrayDocs == {ArrayText(items) : items \in ItemSeqs}

WalletsArrayDocs == {WalletsArrayText(items) : items \in ItemSeqs}

WalletsObjectDocs == {WalletsObjectText(names, items) : items \in ItemSeqs, names \in KeySchemes}

SingleDocs ==
    {"{\"wallets\":\"x\"}", "{\"wallets\":null}", "{\"wallets\":0}", "{\"wallets\":true}",
     "{\"a\":1}", "{\n  \"a\": 1,\n  \"b\": [\n    2\n  ]\n}", "null", "1", "\"s\"", "true",
     "{\"wallet_type\":\"standard\",\"seed_version\":17}"}

SecretTexts ==
    {KeyHex, "0x" \o KeyHex, KeyDecimal, KeyExponent, KeyZeros, "0x" \o KeyDecimal,
     Mnemonic12, Wif51, Wif52, ExtendedKey, EthAddress, "", " ", "\n", "hello"}

\* a WIF-shaped token of 53 characters
Wif53 == Wif52 \o "a"

\* the secrets that stand on a line of their own
KeyLines == {KeyHex, KeyDecimal, Wif51, Wif52, Wif53, Mnemonic12, ExtendedKey, "hello"}

\* the files of two such lines
KeyFiles == {a \o "\n" \o b : a \in KeyLines, b \in KeyLines}

ExtractInputs ==
    LineFiles \cup ArrayDocs \cup WalletsArrayDocs \cup WalletsObjectDocs \cup SingleDocs
        \cup SecretTexts \cup KeyFiles

\* white space put around a classified text
PadChars == {" ", "\n"}

Pads == {Join(p, "") : p \in SeqsUpTo(PadChars, MaxPad)}

\* a wallet document that is also twelve white-space separated words
WalletOfTwelveWords == "{\"seed\": \"a b c d e f g h i j k\"}"

\* twelve words, the first of which starts like an extended key
TwelveWordsFromXpub == "xpub a b c d e f g h i j k"

ClassifyTexts ==
    SecretTexts \cup SingleDocs
        \cup {WalletOfTwelveWords, TwelveWordsFromXpub, "0x" \o EthAddress,
              "{\"crypto\": {}, \"version\": 3}", "{\"crypto\": {}, \"version\": 0}",
              "{\"wallet_type\": \"standard\"}", "{\"privateKey\": \"\"}",
              "{\"seedPhrase\": \"x\"}", "[1]", "{\"xprv\": 1", "zprv", "L" \o KeyHex,
              "hello\n" \o KeyHex}

ClassifyInputs == {l \o t \o r : l \in Pads, t \in ClassifyTexts, r \in Pads}

\* the properties the documents handed to the synthesizer are made of
FieldPool ==
    << <<"wallet_type", "\"standard\"">>, <<"seed_version", "17">>, <<"crypto", "{}">>,
       <<"exodus", "0">>, <<"mnemonic", "\"a b\"">>, <<"privateKey", "\"k\\\"\"">>,
       <<"address", "\"0xab\"">>, <<"keystore", "{\"seed\": \"t\"}">> >>

\* the largest number of properties of such a document
MaxFields == 2

\* the documents with the properties picked, in the order of the pool
FieldDocs ==
    {ObjectText([i \in 1..Len(pick) |-> FieldPool[pick[i]][1]],
                [i \in 1..Len(pick) |-> FieldPool[pick[i]][2]]) :
        pick \in {q \in SeqsUpTo(1..Len(FieldPool), MaxFields) :
                    \A i \in 1..(Len(q) - 1) : q[i] < q[i + 1]}}

BuildInputs ==
    FieldDocs
        \cup {"", " ", "null", "1", "1e400", "\"s\"", "true", "[]", "[1, {\"a\": null}]",
              "{\"a\":", "{'a': 1}", "say \"hi\" \\ bye", "a\tb\r\nc\n", "{\"wallet_type\": \"\"}",
              "{\"exodus\": {\"version\": \"1\"}, \"Crypto\": 1}",
              Mnemonic12, MnemonicTwoLines, MnemonicThreeLines, MnemonicTabs, TwelveWordsFromXpub,
              KeyHex, KeyDecimal, Wif51, ExtendedKey}

\* the contents whose files are generated in every format
FormatInputs ==
    {Mnemonic12, KeyHex, "null", "{\"wallet_type\": \"standard\"}", "{\"a\":"}

\* the largest number of lines of a file whose archive is generated
MaxEntries == 3

\* the contents whose archive is generated: files of one entry per line,
\* arrays of entries, single documents and secrets
ArchiveInputs ==
    {Join(ls, "\n") : ls \in (SeqsUpTo({"hello", KeyHex}, MaxEntries) \ {<<>>})}
        \cup {"[1, {\"a\": 1}]", "[]", "null", "{\"wallet_type\": \"standard\"}", Mnemonic12}

\* what two calls can read from outside their arguments: the draws of
\* Math.random() * 16 | 0 and the clock
Envs ==
    {[rand |-> <<0>>, iso |-> "2024-01-01T00:00:00.000Z", ms |-> "1704067200000"],
     [rand |-> <<3, 12>>, iso |-> "2024-01-01T00:00:00.001Z", ms |-> "1704067200001"]}

\* the formats whose size is estimated: 'dat' and two of the others
EstimateFormats == {"wallet", "dat", "metamask"}

EstimateInputs ==
    {Repeat("x", n) : n \in 0..MaxTextLen}
        \cup SecretTexts \cup SingleDocs
        \cup {"{\"a\":", "[1, 2]", "{\"wallet_type\": 0}", "{\"wallet_type\": \"\"}",
              "{\"wallet_type\": null, \"a\": [1]}", "{\"wallet_type\": \"imported\"}"}

(***************************************************************************)
(* The state machine                                                       *)
(*                                                                         *)
(* content is the text of the selected file and format the selected        *)
(* output format; done is the set of operations applied to them so far.    *)
(* entries is what detectWalletEntries returned, label what the two copies *)
(* of detectCryptoContentType returned, output what buildWallet returned,  *)
(* repeat what a second call with the same arguments returned, fed what    *)
(* buildWallet returned for the output itself, and size the estimates of   *)
(* the two copies of estimateOutputSize by format.  bytes is what the two   *)
(* copies of buildWalletDat returned and extOutput what the extension's    *)
(* buildWallet returned.  ui is what the page shows and packs: the          *)
(* extension and description FileInfo displays for the format and the      *)
(* files of 'generate all formats'.  checked is how each call of the       *)
(* classifier, the extractor and the estimator on the content ended.  scan  *)
(* is the multi-line scan of detectWalletEntries: its local variables and  *)
(* the line it reads next.                                                 *)
(***************************************************************************)
NoOutput == [thrown |-> FALSE, text |-> ""]

NoLabel == [web |-> "", ext |-> ""]

NotEstimated == [web |-> 0 - 1, ext |-> 0 - 1]

NoBytes == [web |-> <<>>, ext |-> <<>>]

\* const MAX_SIZE = 5 * 1024 * 1024
MAX_SIZE == 5 * 1024 * 1024

\* the files the user picks: name, size in bytes and text; a key, an empty
\* array at the ceiling, a mnemonic one byte above it, an empty file
UploadFiles ==
    {[name |-> "a.txt", size |-> 64, text |-> KeyHex],
     [name |-> "b.json", size |-> MAX_SIZE, text |-> "[]"],
     [name |-> "c.seed", size |-> MAX_SIZE + 1, text |-> Mnemonic12],
     [name |-> "d.txt", size |-> 0, text |-> ""]}

\* no file selected (null)
NoFile == [name |-> "", size |-> 0, text |-> ""]

\* no generation waiting for its timer
NoPending == [text |-> "", format |-> "", filename |-> "", all |-> FALSE, waiting |-> FALSE]

\* the formats the user picks in the web client
AppFormats == {"wallet", "dat"}

\* App's state after the first render, with the reads and the generation in
\* flight: useState(null), useState(false), ..., useState('wallet')
NoApp ==
    [fileData |-> NoFile, isProcessing |-> FALSE, showSuccess |-> FALSE, showError |-> FALSE,
     errorDetails |-> "", outputFormat |-> "wallet", outputFilename |-> "",
     generateAllFormats |-> FALSE, reading |-> {}, pending |-> NoPending, download |-> ""]

\* the popup of wallet-builder.js when it opens: no file, no content, the
\* format 'wallet', the generate button as resetFileSelection leaves it
NoWb ==
    [currentFile |-> NoFile, currentContent |-> "", cryptoType |-> "Unknown",
     outputFormat |-> "wallet", filename |-> "", previewShown |-> FALSE,
     errorShown |-> FALSE, errorDetails |-> "", generateDisabled |-> TRUE, reading |-> {}]

\* no message sent to the background script
NoMessage == [data |-> "", format |-> "", clicked |-> "", used |-> ""]

\* the popup of popup.js when it opens: currentFile = null, fileContent =
\* null (loaded = FALSE), outputFormat = 'wallet', the generate button as
\* resetFileSelection leaves it, no timer running, no message sent
NoPopup ==
    [currentFile |-> NoFile, loaded |-> FALSE, fileContent |-> "", outputFormat |-> "wallet",
     generateDisabled |-> TRUE, fileInfoShown |-> FALSE, processingShown |-> FALSE,
     successShown |-> FALSE, errorShown |-> FALSE, errorDetails |-> "",
     reading |-> {}, timers |-> <<>>, awaited |-> <<>>, message |-> NoMessage]

\* the scan loop before its first iteration
NoScan == [st |-> ScanInit, i |-> 1]

NoCalls == [f \in Calls |-> Ret("")]

NoUi == [files |-> <<>>, archive |-> {}, failed |-> FALSE, extension |-> "", description |-> ""]

Start(inputs, formats) ==
    /\ content \in inputs
    /\ format \in formats
    /\ done = {}
    /\ entries = <<>>
    /\ label = NoLabel
    /\ output = NoOutput
    /\ repeat = NoOutput
    /\ fed = NoOutput
    /\ size = [f \in EstimateFormats |-> NotEstimated]
    /\ bytes = NoBytes
    /\ extOutput = NoOutput
    /\ ui = NoUi
    /\ checked = NoCalls
    /\ scan = NoScan
    /\ app = NoApp
    /\ wb = NoWb
    /\ popup = NoPopup

\* detectWalletEntries(content), as handleGenerateWallet calls it
Detect ==
    /\ "detect" \notin done
    /\ entries' = detectWalletEntries(content)
    /\ done' = done \cup {"detect"}
    /\ UNCHANGED <<content, format, label, output, repeat, fed, size, bytes, extOutput, ui, checked, scan, app, wb, popup>>

\* detectCryptoContentType(content), in the web client and in the extension
Classify ==
    /\ "classify" \notin done
    /\ label' = [web |-> detectCryptoContentType(content),
                 ext |-> Ext_detectCryptoContentType(content)]
    /\ done' = done \cup {"classify"}
    /\ UNCHANGED <<content, format, entries, output, repeat, fed, size, bytes, extOutput, ui, checked, scan, app, wb, popup>>

\* buildWallet(content, format)
Build(env) ==
    /\ "build" \notin done
    /\ output' = buildWallet(content, format, env)
    /\ done' = done \cup {"build"}
    /\ UNCHANGED <<content, format, entries, label, repeat, fed, size, bytes, extOutput, ui, checked, scan, app, wb, popup>>

\* a second call buildWallet(content, format)
BuildAgain(env) ==
    /\ "build" \in done
    /\ "again" \notin done
    /\ repeat' = buildWallet(content, format, env)
    /\ done' = done \cup {"again"}
    /\ UNCHANGED <<content, format, entries, label, output, fed, size, bytes, extOutput, ui, checked, scan, app, wb, popup>>

\* buildWallet(buildWallet(content, 'wallet'), 'wallet')
Rebuild(env) ==
    /\ "build" \in done
    /\ "rebuild" \notin done
    /\ format = "wallet"
    /\ ~output.thrown
    /\ fed' = buildWallet(output.text, "wallet", env)
    /\ done' = done \cup {"rebuild"}
    /\ UNCHANGED <<content, format, entries, label, output, repeat, size, bytes, extOutput, ui, checked, scan, app, wb, popup>>

\* estimateOutputSize(content, f), in the web client and in the extension
Estimate(f) ==
    /\ size[f] = NotEstimated
    /\ size' = [size EXCEPT ![f] = [web |-> estimateOutputSize(content, f),
                                    ext |-> Ext_estimateOutputSize(content, f)]]
    /\ done' = done \cup {"estimate"}
    /\ UNCHANGED <<content, format, entries, label, output, repeat, fed, bytes, extOutput, ui, checked, scan, app, wb, popup>>

\* buildWalletDat(content), in the web client and in the extension
EncodeDat(env) ==
    /\ "encode" \notin done
    /\ bytes' = [web |-> buildWalletDat(content, env), ext |-> Ext_buildWalletDat(content)]
    /\ done' = done \cup {"encode"}
    /\ UNCHANGED <<content, format, entries, label, output, repeat, fed, size, extOutput, ui, checked, scan, app, wb, popup>>

\* the extension's buildWallet(content)
ExtBuild ==
    /\ "ext" \notin done
    /\ extOutput' = Ext_buildWallet(content)
    /\ done' = done \cup {"ext"}
    /\ UNCHANGED <<content, format, entries, label, output, repeat, fed, size, bytes, ui, checked, scan, app, wb, popup>>

\* zip.folder(name).file(filename, data), one call after the other: a file
\* added under a path already in the archive replaces the one there
RECURSIVE ZipFiles(_, _)
ZipFiles(adds, n) ==
    IF n = 0 THEN {}
    ELSE {f \in ZipFiles(adds, n - 1) : f.path # adds[n].path} \cup {adds[n]}

\* the folder of entry i of entryCount
EntryFolder(i, entryCount) ==
    IF entryCount > 1 THEN "wallet-" \o ToString(i) ELSE "wallet-files"

\* the calls file(filename, data) of 'generate all formats', entry by entry
\* and format by format, from call j on
RECURSIVE ZipAdds(_, _, _)
ZipAdds(walletEntries, env, j) ==
    LET i == ((j - 1) \div Len(Formats)) + 1
        f == ((j - 1) % Len(Formats)) + 1
        File(path, built) == [path |-> path, data |-> built.text, thrown |-> built.thrown]
    IN  IF j > Len(walletEntries) * Len(Formats) THEN <<>>
        ELSE <<File(EntryFolder(i, Len(walletEntries)) \o "/" \o FileName("wallet", Formats[f]),
                    buildWallet(walletEntries[i].content, Formats[f], env))>>
                \o ZipAdds(walletEntries, env, j + 1)

\* 'generate all formats' (App.tsx): the entries are detected and one file per
\* entry and format is added to the archive; the files of the first entry
\* are kept in the order of the formats.  An exception of buildWallet, or of
\* walletEntries[0].content when there is no entry, ends in the catch block.
GenerateAll(env) ==
    /\ "generate" \notin done
    /\ LET Generated(adds, failed) ==
               [ui EXCEPT
                    !.files = [f \in 1..(IF adds = <<>> THEN 0 ELSE Len(Formats)) |->
                                  [name |-> FileName("wallet", Formats[f]),
                                   data |-> adds[f].data]],
                    !.archive = IF failed THEN {}
                                ELSE {[path |-> a.path, data |-> a.data] :
                                        a \in ZipFiles(adds, Len(adds))},
                    !.failed = failed]
       IN  \E adds \in {ZipAdds(detectWalletEntries(content), env, 1)} :
               ui' = Generated(adds, adds = <<>> \/ \E j \in 1..Len(adds) : adds[j].thrown)
    /\ done' = done \cup {"generate"}
    /\ UNCHANGED <<content, format, entries, label, output, repeat, fed, size, bytes, extOutput, checked, scan, app, wb, popup>>

\* FileInfo shows the extension and the description of the selected format
Describe ==
    /\ "describe" \notin done
    /\ ui' = [ui EXCEPT !.extension = FileInfo_FORMAT_INFO[format].extension,
                        !.description = FileInfo_FORMAT_INFO[format].description]
    /\ done' = done \cup {"describe"}
    /\ UNCHANGED <<content, format, entries, label, output, repeat, fed, size, bytes, extOutput, checked, scan, app, wb, popup>>

\* the classifier, the extractor and the estimator called on the content
Validate ==
    /\ "validate" \notin done
    /\ checked' = [f \in Calls |->
                    CASE f = "isValidWalletJSON" -> Call_isValidWalletJSON(content)
                      [] f = "validateCryptoContent" -> Call_validateCryptoContent(content)
                      [] f = "detectCryptoContentType" -> Call_detectCryptoContentType(content)
                      [] f = "detectWalletEntries" -> Call_detectWalletEntries(content)
                      [] OTHER -> Call_estimateOutputSize(content, format)]
    /\ done' = done \cup {"validate"}
    /\ UNCHANGED <<content, format, entries, label, output, repeat, fed, size, bytes, extOutput, ui, scan, app, wb, popup>>

\* one iteration of the loop over the lines in detectWalletEntries, which is
\* entered when the file as a whole is not JSON and has several lines
ScanLine ==
    /\ RaisesOnParse(content)
    /\ Len(NonBlankLines(content)) > 1
    /\ scan.i <= Len(NonBlankLines(content))
    /\ scan' = [st |-> ScanStep(scan.st, NonBlankLines(content)[scan.i]), i |-> scan.i + 1]
    /\ UNCHANGED <<content, format, done, entries, label, output, repeat, fed, size, bytes, extOutput, ui, checked, app, wb, popup>>

InitExtract == Start(ExtractInputs, {"wallet"})

NextExtract == Detect

SpecExtract == InitExtract /\ [][NextExtract]_vars

InitClassify == Start(ClassifyInputs, {"wallet"})

NextClassify == Detect \/ Classify

SpecClassify == InitClassify /\ [][NextClassify]_vars

InitBuild == Start(BuildInputs, FormatIds)

NextBuild == \E env \in Envs : Build(env) \/ BuildAgain(env) \/ Rebuild(env)

SpecBuild == InitBuild /\ [][NextBuild]_vars

InitDat == Start(BuildInputs, {"wallet", "dat"})

NextDat == \E env \in Envs : Build(env) \/ EncodeDat(env) \/ ExtBuild

SpecDat == InitDat /\ [][NextDat]_vars

InitFormats == Start(FormatInputs, FormatIds)

NextFormats == \E env \in Envs : GenerateAll(env) \/ Describe \/ Build(env)

SpecFormats == InitFormats /\ [][NextFormats]_vars

InitArchive == Start(ArchiveInputs, {"wallet"})

NextArchive == (\E env \in Envs : GenerateAll(env)) \/ Detect

SpecArchive == InitArchive /\ [][NextArchive]_vars

InitValidate == Start(ClassifyInputs, {"wallet"})

NextValidate == Validate \/ Classify

SpecValidate == InitValidate /\ [][NextValidate]_vars

\* the files scanned line by line: comments, the two ends of a block, an
\* object on one line and a plain line, separated by line feeds
ScanFiles ==
    {Join(ls, "\n") :
        ls \in (SeqsUpTo({"# note", "// note", "{", "}", "{\"a\": 1}", "plain text"}, MaxLines)
                    \ {<<>>})}

InitScan == Start(ScanFiles, {"wallet"})

NextScan == ScanLine \/ Detect

SpecScan == InitScan /\ [][NextScan]_vars

InitEstimate == Start(EstimateInputs, {"wallet"})

NextEstimate == \E f \in EstimateFormats : Estimate(f)

SpecEstimate == InitEstimate /\ [][NextEstimate]_vars

(***************************************************************************)
(* The web client (App.tsx)                                                *)
(***************************************************************************)
engine == <<content, format, done, entries, label, output, repeat, fed, size, bytes, extOutput, ui, checked, scan>>

others == <<engine, wb, popup>>

\* validateFileSize refusing a file of exactly MAX_SIZE bytes
validateFileSizeBelow(file) == file.size < MAX_SIZE

\* validateFileSize(file).isValid
validateFileSize(file) == file.size <= MAX_SIZE

\* validateWalletData(content).isValid: every return gives true
validateWalletData(text) == TRUE

\* file.name.replace(/\.[^/.]+$/, "")
BaseFilename(name) ==
    LET dot == LastAt(name, 1, Len(name), {"."}, TRUE)
    IN  IF dot >= 1 /\ dot < Len(name) /\ ~Contains(Sub(name, dot + 1, Len(name)), "/")
        THEN Sub(name, 1, dot - 1) ELSE name

\* handleFileSelected(file) up to reader.readAsText(file)
App_handleFileSelected(file) ==
    /\ app' = IF ~validateFileSize(file)
              THEN [app EXCEPT !.errorDetails = "File is too large", !.showError = TRUE]
              ELSE [app EXCEPT !.reading = @ \cup {file}]
    /\ UNCHANGED others

\* reader.onload of handleFileSelected
App_onload(file) ==
    /\ file \in app.reading
    /\ app' = IF file.text # "" /\ validateWalletData(file.text)
              THEN [app EXCEPT !.reading = @ \ {file},
                               !.fileData = file,
                               !.outputFilename = BaseFilename(file.name),
                               !.showSuccess = FALSE,
                               !.showError = FALSE]
              ELSE [app EXCEPT !.reading = @ \ {file},
                               !.errorDetails = "Could not read file content as text",
                               !.showError = TRUE]
    /\ UNCHANGED others

\* reader.onerror of handleFileSelected
App_onerror(file) ==
    /\ file \in app.reading
    /\ app' = [app EXCEPT !.reading = @ \ {file},
                          !.errorDetails = "Failed to read the file",
                          !.showError = TRUE]
    /\ UNCHANGED others

\* FileInfo is rendered: fileData && !isProcessing
FileInfoShown == app.fileData # NoFile /\ ~app.isProcessing

App_handleRemoveFile ==
    /\ FileInfoShown
    /\ app' = [app EXCEPT !.fileData = NoFile, !.showSuccess = FALSE, !.showError = FALSE]
    /\ UNCHANGED others

App_handleFormatChange(fmt) ==
    /\ FileInfoShown
    /\ app' = [app EXCEPT !.outputFormat = fmt]
    /\ UNCHANGED others

\* onGenerateAllChange={setGenerateAllFormats}
App_setGenerateAllFormats(all) ==
    /\ FileInfoShown
    /\ app' = [app EXCEPT !.generateAllFormats = all]
    /\ UNCHANGED others

\* handleGenerateWallet up to the await of its timer: the button is enabled
\* (fileData && !isProcessing) and the call keeps the state of its render
App_handleGenerateWallet ==
    /\ app.fileData # NoFile
    /\ ~app.isProcessing
    /\ app.fileData.text # ""
    /\ app' = [app EXCEPT !.isProcessing = TRUE,
                          !.pending = [text |-> app.fileData.text,
                                       format |-> app.outputFormat,
                                       filename |-> app.outputFilename,
                                       all |-> app.generateAllFormats,
                                       waiting |-> TRUE]]
    /\ UNCHANGED others

\* whether the try block of handleGenerateWallet raises: walletEntries[0] of
\* no entry, or a call of buildWallet
GenerateRaises(walletEntries, fmt, all, env) ==
    \/ walletEntries = <<>>
    \/ IF all THEN \E adds \in {ZipAdds(walletEntries, env, 1)} :
                        \E j \in 1..Len(adds) : adds[j].thrown
       ELSE \E i \in 1..Len(walletEntries) : buildWallet(walletEntries[i].content, fmt, env).thrown

\* a.download of handleGenerateWallet
DownloadName(baseFilename, entryCount, fmt, all) ==
    IF all
    THEN IF entryCount > 1
         THEN baseFilename \o "-" \o ToString(entryCount) \o "-wallets-all-formats.zip"
         ELSE baseFilename \o "-all-formats.zip"
    ELSE IF entryCount > 1
         THEN baseFilename \o "-" \o ToString(entryCount) \o "-wallets-" \o fmt \o ".zip"
         ELSE baseFilename \o App_FORMAT_INFO[fmt].extension

\* what the try block of handleGenerateWallet does with a content: whether
\* it raises, and the number of entries it detects
GenerateOutcome(text, fmt, all, env) ==
    LET Outcome(walletEntries) ==
            [raises |-> GenerateRaises(walletEntries, fmt, all, env),
             entryCount |-> Len(walletEntries)]
    IN  CHOOSE o \in {Outcome(walletEntries) : walletEntries \in {detectWalletEntries(text)}} : TRUE

\* handleGenerateWallet after the await of its timer
App_generated(env) ==
    /\ app.pending.waiting
    /\ LET Done(outcome, baseFilename) ==
               IF outcome.raises
               THEN [app EXCEPT !.errorDetails = "Failed to generate wallet file",
                                !.showError = TRUE,
                                !.isProcessing = FALSE,
                                !.pending = NoPending]
               ELSE [app EXCEPT !.download = DownloadName(baseFilename, outcome.entryCount,
                                                          app.pending.format, app.pending.all),
                                !.showSuccess = TRUE,
                                !.isProcessing = FALSE,
                                !.pending = NoPending]
       IN  \E outcome \in {GenerateOutcome(app.pending.text, app.pending.format,
                                             app.pending.all, env)} :
               app' = Done(outcome, IF Trim(app.pending.filename) # ""
                                    THEN Trim(app.pending.filename) ELSE "wallet")
    /\ UNCHANGED others

\* handleTryAgain, the button of the error message
App_handleTryAgain ==
    /\ app.showError
    /\ app' = [app EXCEPT !.showError = FALSE]
    /\ UNCHANGED others

\* the messages of the web client: selections, removals, generations and
\* 'try again', with the output options as they are at the start
InitApp == Start({""}, {"wallet"})

NextApp ==
    \/ \E file \in UploadFiles : App_handleFileSelected(file) \/ App_onload(file) \/ App_onerror(file)
    \/ App_handleRemoveFile
    \/ App_handleGenerateWallet
    \/ \E env \in Envs : App_generated(env)
    \/ App_handleTryAgain

SpecApp == InitApp /\ [][NextApp]_vars

(***************************************************************************)
(* The popup of the wallet-converter-extension (wallet-builder.js)         *)
(***************************************************************************)
Ext_validateCryptoContent(text) ==
    LET Single(t) ==
            \/ Ext_isValidWalletJSON(t) \/ Ext_isValidWIF(t) \/ Ext_isValidPrivateKey(t)
            \/ Ext_isValidMnemonic(t) \/ Ext_isValidExtendedKey(t)
            \/ Ext_isValidEthereumAddress(t)
        Lines(lines) == \E i \in 1..Len(lines) : Trim(lines[i]) # "" /\ Single(Trim(lines[i]))
    IN  Lines(SplitRuns(Trim(text), 1, {"\n"})) \/ Single(Trim(text))

\* showError(message)
Wb_showError(w, message) == [w EXCEPT !.errorDetails = message, !.errorShown = TRUE]

\* handleFile(file) up to reader.readAsText(file)
Wb_handleFile(file) ==
    /\ wb' = IF file.size > MAX_SIZE
             THEN Wb_showError(wb, "File is too large")
             ELSE [wb EXCEPT !.errorShown = FALSE, !.reading = @ \cup {file}]
    /\ UNCHANGED <<engine, app, popup>>

\* reader.onload of handleFile
Wb_onload(file) ==
    /\ file \in wb.reading
    /\ wb' = IF ~Ext_validateCryptoContent(file.text)
             THEN Wb_showError([wb EXCEPT !.reading = @ \ {file}], "Invalid file")
             ELSE [wb EXCEPT !.reading = @ \ {file},
                             !.currentFile = file,
                             !.currentContent = file.text,
                             !.cryptoType = Ext_detectCryptoContentType(file.text),
                             !.filename = BaseFilename(file.name),
                             !.previewShown = TRUE,
                             !.generateDisabled = FALSE]
    /\ UNCHANGED <<engine, app, popup>>

\* reader.onerror of handleFile
Wb_onerror(file) ==
    /\ file \in wb.reading
    /\ wb' = Wb_showError([wb EXCEPT !.reading = @ \ {file}], "Failed to read the file")
    /\ UNCHANGED <<engine, app, popup>>

\* resetFileSelection, the handler of 'remove file' and of 'try again'
Wb_resetFileSelection ==
    /\ wb.previewShown \/ wb.errorShown
    /\ wb' = [wb EXCEPT !.currentFile = NoFile, !.currentContent = "", !.cryptoType = "Unknown",
                        !.filename = "", !.previewShown = FALSE, !.errorShown = FALSE,
                        !.generateDisabled = TRUE]
    /\ UNCHANGED <<engine, app, popup>>

\* handleFormatChange, of the format options shown with the preview
Wb_handleFormatChange(fmt) ==
    /\ wb.previewShown
    /\ wb' = [wb EXCEPT !.outputFormat = fmt]
    /\ UNCHANGED <<engine, app, popup>>

\* the files picked in the popup: those with some text
PopupFiles == {file \in UploadFiles : file.text # ""}

\* the selection of a file in the web client and in the popup
InitUpload == Start({""}, {"wallet"})

NextUpload ==
    \/ \E file \in UploadFiles : App_handleFileSelected(file) \/ App_onload(file) \/ App_onerror(file)
    \/ App_handleRemoveFile
    \/ \E fmt \in AppFormats : App_handleFormatChange(fmt)
    \/ \E all \in BOOLEAN : App_setGenerateAllFormats(all)
    \/ \E file \in PopupFiles : Wb_handleFile(file) \/ Wb_onload(file) \/ Wb_onerror(file)
    \/ Wb_resetFileSelection
    \/ \E fmt \in AppFormats : Wb_handleFormatChange(fmt)

SpecUpload == InitUpload /\ [][NextUpload]_vars

(***************************************************************************)
(* The popup of the chrome-extension (popup.js)                            *)
(***************************************************************************)
\* the largest number of generations started and not yet answered
MaxPending == 2

\* the files picked in this popup: a key and a mnemonic
PickedFiles == {file \in UploadFiles : file.text \in {KeyHex, Mnemonic12}}

Popup_createNewWallet(rawContent) ==
    LET Wallet(cleanContent) ==
            Obj(<< <<"seed_version", JNum("17")>>,
                   <<"wallet_type", JStr("standard")>>,
                   <<"keystore", Obj(<< <<"type", JStr("imported")>>,
                                        <<"keypairs", Obj(<< <<"address", JStr(cleanContent)>> >>)>> >>)>>,
                   <<"use_encryption", JBool(FALSE)>>,
                   <<"labels", EmptyObject>>,
                   <<"transactions", EmptyObject>> >>)
    IN  Ret(StringifyPretty(Wallet(CleanContent(rawContent))))

\* buildWallet(fileContent) of popup.js; fileContent is null when nothing is
\* loaded, and null.trim() raises in createNewWallet
Popup_buildWallet(loaded, text) ==
    LET FromJson(ok, parsed) ==
            IF ~ok \/ ThrowsOnRead(parsed) THEN Thrown
            ELSE IF Truthy(OrElse(Get(parsed, "wallet_type"), Get(parsed, "keystore")))
            THEN Ret(StringifyPretty(parsed))
            ELSE Popup_createNewWallet(Stringify(parsed))
    IN  IF ~loaded THEN Thrown
        ELSE TryCatch(FromJson(JsonParse(text).ok, JsonParse(text).v), Popup_createNewWallet(text))

\* showError(message)
Popup_showError(p, message) ==
    [p EXCEPT !.processingShown = FALSE, !.fileInfoShown = FALSE, !.errorShown = TRUE,
              !.errorDetails = message, !.generateDisabled = FALSE]

\* handleFileSelection(file) up to reader.readAsText(file), on a drop and on
\* a change of the file input
Popup_handleFileSelection(file) ==
    /\ popup' = [popup EXCEPT !.currentFile = file, !.reading = @ \cup {file}]
    /\ UNCHANGED <<engine, app, wb>>

\* reader.onload of handleFileSelection
Popup_onload(file) ==
    /\ file \in popup.reading
    /\ popup' = [popup EXCEPT !.reading = @ \ {file},
                              !.loaded = TRUE,
                              !.fileContent = file.text,
                              !.fileInfoShown = TRUE,
                              !.generateDisabled = FALSE,
                              !.successShown = FALSE,
                              !.errorShown = FALSE]
    /\ UNCHANGED <<engine, app, wb>>

\* reader.onerror of handleFileSelection
Popup_onerror(file) ==
    /\ file \in popup.reading
    /\ popup' = Popup_showError([popup EXCEPT !.reading = @ \ {file}], "Failed to read the file")
    /\ UNCHANGED <<engine, app, wb>>

\* resetFileSelection, the handler of 'remove file' in the file info
Popup_resetFileSelection ==
    /\ popup.fileInfoShown
    /\ popup' = [popup EXCEPT !.currentFile = NoFile, !.loaded = FALSE, !.fileContent = "",
                              !.fileInfoShown = FALSE, !.generateDisabled = TRUE,
                              !.successShown = FALSE, !.errorShown = FALSE]
    /\ UNCHANGED <<engine, app, wb>>

\* the click handlers of the two format buttons
Popup_format(fmt) ==
    /\ popup.fileInfoShown
    /\ popup' = [popup EXCEPT !.outputFormat = fmt]
    /\ UNCHANGED <<engine, app, wb>>

\* the click handler of the generate button, which a disabled button does
\* not run: showProcessing() and setTimeout(..., 1500)
Popup_generate ==
    /\ ~popup.generateDisabled
    /\ Len(popup.timers) + Len(popup.awaited) < MaxPending
    /\ popup' = IF popup.currentFile = NoFile \/ ~popup.loaded \/ popup.fileContent = ""
                THEN popup
                ELSE [popup EXCEPT !.fileInfoShown = FALSE, !.processingShown = TRUE,
                                   !.generateDisabled = TRUE, !.successShown = FALSE,
                                   !.errorShown = FALSE,
                                   !.timers = Append(@, popup.fileContent)]
    /\ UNCHANGED <<engine, app, wb>>

\* the callback of setTimeout: the build of the content there is now, and
\* the message to the background script
Popup_timeout ==
    /\ popup.timers # <<>>
    /\ LET Built(walletData) ==
               IF walletData.thrown
               THEN Popup_showError([popup EXCEPT !.timers = Tail(@)],
                                    "Failed to generate wallet file")
               ELSE [popup EXCEPT !.timers = Tail(@),
                                  !.awaited = Append(@, popup.outputFormat),
                                  !.message = [data |-> walletData.text,
                                               format |-> popup.outputFormat,
                                               clicked |-> Head(popup.timers),
                                               used |-> popup.fileContent]]
       IN  popup' = Built(Popup_buildWallet(popup.loaded, popup.fileContent))
    /\ UNCHANGED <<engine, app, wb>>

\* the response callback of chrome.runtime.sendMessage
Popup_response(lastError) ==
    /\ popup.awaited # <<>>
    /\ popup' = IF lastError
                THEN Popup_showError([popup EXCEPT !.awaited = Tail(@)], "lastError")
                ELSE [popup EXCEPT !.awaited = Tail(@), !.processingShown = FALSE,
                                   !.successShown = TRUE, !.generateDisabled = FALSE]
    /\ UNCHANGED <<engine, app, wb>>

\* the click handler of 'try again'
Popup_tryAgain ==
    /\ popup.errorShown
    /\ popup' = [popup EXCEPT !.errorShown = FALSE,
                              !.fileInfoShown = IF popup.currentFile # NoFile THEN TRUE ELSE @]
    /\ UNCHANGED <<engine, app, wb>>

InitPopup == Start({""}, {"wallet"})

NextPopup ==
    \/ \E file \in PickedFiles :
            Popup_handleFileSelection(file) \/ Popup_onload(file) \/ Popup_onerror(file)
    \/ Popup_resetFileSelection
    \/ \E fmt \in AppFormats : Popup_format(fmt)
    \/ Popup_generate
    \/ Popup_timeout
    \/ \E lastError \in BOOLEAN : Popup_response(lastError)
    \/ Popup_tryAgain

SpecPopup == InitPopup /\ [][NextPopup]_vars

(***************************************************************************)
(* Properties                                                              *)
(***************************************************************************)
\* C1: detectWalletEntries is total: for every non-empty input string,
\* whether or not it parses as JSON, the returned sequence has at least one
\* entry.
C1_EveryInputYieldsAnEntry ==
    ("detect" \in done /\ content # "") => Len(entries) >= 1

\* C2: for every input string and each of the twelve format ids, buildWallet
\* returns without raising and its result parses as JSON.
C2_BuildReturnsJson ==
    "build" \in done => (~output.thrown /\ JsonParse(output.text).ok)

\* malformed JSON built as a hardware-wallet document
C2_MalformedInputBuilt ==
    /\ "build" \in done
    /\ content = "{\"a\":"
    /\ format = "ledger"
    /\ ~output.thrown
    /\ Len(output.text) > 0

StableFormats == {"wallet", "dat", "electrum", "exodus"}

C4_WalletFormatIdempotent ==
    "rebuild" \in done => (~fed.thrown /\ fed.text = output.text)

\* a raw key wrapped into a wallet, and the wallet built again
C4_WalletRebuilt ==
    /\ "rebuild" \in done
    /\ content = KeyHex
    /\ output.text # content
    /\ fed = output

\* JSON.stringify of the parsed element, for each element of JsonAtoms
Reserialized(atom) ==
    CASE atom = "1.50" -> "1.5"
      [] atom = "{ \"a\" : 1 }" -> "{\"a\":1}"
      [] atom = "[2, 3]" -> "[2,3]"
      [] OTHER -> atom

\* the positions of the first n members of a wallets object in the order
\* JavaScript enumerates the properties of the parsed object: array indices
\* ascending, then the other names as first written; a repeated name is one
\* property, with the value written last
ValueOrder(names, n) ==
    CASE names = <<"b", "1", "0">> /\ n = 2 -> <<2, 1>>
      [] names = <<"b", "1", "0">> /\ n = 3 -> <<3, 2, 1>>
      [] names = <<"k", "k", "j">> /\ n = 2 -> <<2>>
      [] names = <<"k", "k", "j">> /\ n = 3 -> <<2, 3>>
      [] OTHER -> [i \in 1..n |-> i]

\* one json entry per element, in the given order of the elements
EntryPerElement(items, order) ==
    [k \in 1..Len(order) |->
        [content |-> Reserialized(items[order[k]]), type |-> "json", index |-> k - 1]]

\* the documents with an array or a wallets collection, each with the entries
\* expected of it
CollectionDocs ==
    {<<ArrayText(items), EntryPerElement(items, ValueOrder(<<>>, Len(items)))>> :
        items \in ItemSeqs}
    \cup {<<WalletsArrayText(items), EntryPerElement(items, ValueOrder(<<>>, Len(items)))>> :
        items \in ItemSeqs}
    \cup {<<WalletsObjectText(names, items), EntryPerElement(items, ValueOrder(names, Len(items)))>> :
        items \in ItemSeqs, names \in KeySchemes}

\* C5: when the whole file parses as a JSON array, or as a JSON object whose
\* wallets property is an array or a plain object, extraction returns exactly
\* one entry per element (per value for an object), in element order, each
\* with type json, content the element re-serialized and index the element's
\* position.
C5_OneEntryPerElement ==
    "detect" \in done => \A doc \in CollectionDocs : content = doc[1] => entries = doc[2]

\* a wallets object whose second member has an array index for a name
C5_WalletsObjectExtracted ==
    /\ "detect" \in done
    /\ content = WalletsObjectText(<<"b", "1", "0">>, <<"[2, 3]", "1.50">>)
    /\ Len(entries) = 2
    /\ entries[1].content = "1.5"
    /\ entries[2].content = "[2,3]"

IsComment(line) == StartsWith(line, "#") \/ StartsWith(line, "//")

\* the non-blank lines of a file, trimmed
TrimmedLines(text) ==
    [i \in 1..Len(NonBlankLines(text)) |-> Trim(NonBlankLines(text)[i])]

\* whether lines[i] lies inside a JSON block: a block is opened by a line
\* that starts with '{' and is closed by the first later line that ends with
\* '}'; comment lines neither open nor close one
RECURSIVE InsideBlock(_, _)
InsideBlock(lines, i) ==
    IF i = 1 THEN FALSE
    ELSE IF IsComment(lines[i - 1]) THEN InsideBlock(lines, i - 1)
    ELSE IF InsideBlock(lines, i - 1) THEN ~EndsWith(lines[i - 1], "}")
    ELSE StartsWith(lines[i - 1], "{")

\* lines[i] is neither a comment nor part of a JSON block
IsPlainLine(lines, i) ==
    ~IsComment(lines[i]) /\ ~InsideBlock(lines, i) /\ ~StartsWith(lines[i], "{")

\* lines[i] closes a JSON block
ClosesBlock(lines, i) ==
    ~IsComment(lines[i]) /\ InsideBlock(lines, i) /\ EndsWith(lines[i], "}")

\* the plain lines of lines[i..], top to bottom
RECURSIVE PlainLinesFrom(_, _)
PlainLinesFrom(lines, i) ==
    IF i > Len(lines) THEN <<>>
    ELSE (IF IsPlainLine(lines, i) THEN <<lines[i]>> ELSE <<>>) \o PlainLinesFrom(lines, i + 1)

\* the contents of the entries that are not JSON blocks, in order
PlainContents(es) ==
    LET plain == SelectSeq(es, LAMBDA e : ~StartsWith(e.content, "{"))
    IN  [k \in 1..Len(plain) |-> plain[k].content]

\* three key-shaped lines
ThreeKeyLines == Join(<<KeyHex, KeyHex, KeyHex>>, "\n")

\* C6: for a file that does not parse as JSON and has two or more non-blank
\* lines, the scan skips every line starting with '#' or '//' and turns every
\* other line outside a JSON block into an entry of its own whose content is
\* the trimmed line, in the order of the lines; three key-shaped lines give
\* three entries with indices 0, 1, 2.  (A scan that yields no entry at all
\* gives way to the single entry holding the whole file.)
C6_PlainLinesBecomeEntries ==
    ("detect" \in done /\ ~JsonParse(content).ok /\ Len(NonBlankLines(content)) >= 2)
    => LET lines == TrimmedLines(content)
       IN  /\ IF \E i \in 1..Len(lines) : IsPlainLine(lines, i) \/ ClosesBlock(lines, i)
              THEN PlainContents(entries) = PlainLinesFrom(lines, 1)
              ELSE Len(entries) = 1 /\ entries[1].content = content
           /\ content = ThreeKeyLines
                => /\ [k \in 1..Len(entries) |-> entries[k].index] = <<0, 1, 2>>
                   /\ [k \in 1..Len(entries) |-> entries[k].content] = <<KeyHex, KeyHex, KeyHex>>

\* a comment between two plain lines
C6_CommentSkipped ==
    /\ "detect" \in done
    /\ content = Join(<<KeyHex, "// note", "plain text">>, "\r\n")
    /\ Len(entries) = 2
    /\ entries[2].content = "plain text"

\* C7: on every path of extraction the k-th returned entry (counting from
\* zero) has index k; skipped comment lines consume no index.
C7_IndexIsPosition ==
    "detect" \in done => \A k \in 1..Len(entries) : entries[k].index = k - 1

\* a JSON block of two lines and a plain line
C7_BlockThenLineIndexed ==
    /\ "detect" \in done
    /\ content = Join(<<"{", "}", "plain text">>, "\n")
    /\ Len(entries) = 2
    /\ entries[1].content = "{}"
    /\ entries[2].index = 1

\* the labels in the order of precedence, each with the test of the web
\* client's validator for it
FirstMatch(t) ==
    LET matches == <<isValidWalletJSON(t), isValidWIF(t), isValidPrivateKey(t),
                     isValidMnemonic(t), isValidExtendedKey(t), isValidEthereumAddress(t)>>
        labels == <<"Wallet JSON", "WIF Private Key", "Raw Private Key (Hex)",
                    "Mnemonic Seed Phrase", "Extended Key (xpub/xprv)", "Ethereum Address">>
    IN  IF \A i \in 1..6 : ~matches[i] THEN "Unknown"
        ELSE labels[CHOOSE i \in 1..6 : matches[i] /\ \A j \in 1..(i - 1) : ~matches[j]]

\* C8: detectCryptoContentType returns the label of the first predicate that
\* matches the trimmed input, in the order Wallet JSON, WIF, raw private key,
\* mnemonic, extended key, Ethereum address, and 'Unknown' when none matches;
\* the web client's copy and the extension's copy give the same label.
C8_FirstMatchingLabel ==
    "classify" \in done
    => /\ label.web = FirstMatch(Trim(content))
       /\ label.ext = label.web
       /\ Trim(content) = WalletOfTwelveWords => label.web = "Wallet JSON"
       /\ Trim(content) = TwelveWordsFromXpub => label.web = "Mnemonic Seed Phrase"
       /\ Trim(content) = "0x" \o KeyHex => label.web = "Raw Private Key (Hex)"
       /\ Trim(content) = "hello" => label.web = "Unknown"

\* twelve words that start like an extended key, with white space around
C8_OverlapClassified ==
    /\ "classify" \in done
    /\ content = " " \o TwelveWordsFromXpub \o "\n"
    /\ label.ext = "Mnemonic Seed Phrase"

\* strings of exactly 64 hexadecimal characters, with and without 0x
HexKeys == {KeyHex, "0x" \o KeyHex, KeyDecimal, "0x" \o KeyDecimal, KeyExponent, KeyZeros}

\* C9: for every string of exactly 64 hexadecimal characters, with or without
\* a '0x' prefix (strings of decimal digits included), isValidPrivateKey is
\* true and classification yields the private-key tag, both in the label of
\* detectCryptoContentType and in the tag of the entry extraction returns.
C9_HexKeyTaggedPrivateKey ==
    ({"detect", "classify"} \subseteq done /\ content \in HexKeys)
    => /\ isValidPrivateKey(content)
       /\ label.web = "Raw Private Key (Hex)"
       /\ label.ext = "Raw Private Key (Hex)"
       /\ detectEntryType(content) = "private_key"
       /\ Len(entries) = 1
       /\ entries[1].type = "private_key"

\* C10: for every text that does not parse as JSON, the estimate for 'dat' is
\* the ceiling of the estimate for 'wallet' times 1.15 (the least integer not
\* below it), where the estimate for 'wallet' is the length of the text plus
\* 500; in the web client and in the extension.
C10_DatEstimateIsCeiling ==
    (~JsonParse(content).ok /\ size["wallet"] # NotEstimated /\ size["dat"] # NotEstimated)
    => \A copy \in {"web", "ext"} :
          /\ size["wallet"][copy] = Len(content) + 500
          /\ size["dat"][copy] * 100 >= size["wallet"][copy] * 115
          /\ (size["dat"][copy] - 1) * 100 < size["wallet"][copy] * 115

\* a text of 21 characters: 521 * 1.15 = 599.15
C10_RawTextEstimated ==
    /\ content = Repeat("x", 21)
    /\ size["wallet"] = [web |-> 521, ext |-> 521]
    /\ size["dat"] = [web |-> 600, ext |-> 600]

\* the formats other than dat whose size is estimated
PlainEstimateFormats == EstimateFormats \ {"dat"}

Document == JsonParse(output.text).v

\* the content does not parse as JSON and has a mnemonic's number of words
IsRawMnemonic(text) ==
    ~JsonParse(text).ok /\ Len(SplitWords(Trim(text))) \in {12, 15, 18, 21, 24}

\* C12, as stated: for every input that does not parse as JSON and whose
\* word count is 12, 15, 18, 21 or 24, buildWallet(input, 'electrum') yields
\* a document whose keystore.type is 'bip39' and whose keystore.seed is the
\* trimmed input.
C12_SeedIsTrimmedInput ==
    ("build" \in done /\ format = "electrum" /\ IsRawMnemonic(content))
    => /\ Get(Get(Document, "keystore"), "type") = JStr("bip39")
       /\ Get(Get(Document, "keystore"), "seed") = JStr(Trim(content))

\* C12, amended: for every such input the keystore.type is 'bip39' and the
\* keystore.seed is the trimmed input with every run of line breaks replaced
\* by one space (the trimmed input itself when it is a single line).
C12_SeedIsCleanedInput ==
    ("build" \in done /\ format = "electrum" /\ IsRawMnemonic(content))
    => /\ Get(Get(Document, "keystore"), "type") = JStr("bip39")
       /\ Get(Get(Document, "keystore"), "seed") = JStr(Join(SplitLines(Trim(content)), " "))
       /\ Len(SplitLines(Trim(content))) = 1
            => Get(Get(Document, "keystore"), "seed") = JStr(Trim(content))
       /\ content = MnemonicTwoLines
            => Get(Get(Document, "keystore"), "seed") = JStr(Mnemonic12)
       /\ content = MnemonicThreeLines
            => Get(Get(Document, "keystore"), "seed") = JStr(Mnemonic12)

\* a seed phrase written on two lines, built as an Electrum wallet
C12_TwoLineSeedBuilt ==
    /\ "build" \in done
    /\ format = "electrum"
    /\ content = MnemonicTwoLines
    /\ Get(Get(Document, "keystore"), "seed") = JStr(Mnemonic12)

\* the character a byte encodes
CharOf(b) ==
    CASE b = 9 -> "\t"
      [] b = 10 -> "\n"
      [] b = 12 -> "\f"
      [] b = 13 -> "\r"
      [] b \in 32..95 -> Ch(AsciiLow, b - 31)
      [] b \in 97..126 -> Ch(AsciiHigh, b - 96)
      [] OTHER -> ""

\* seq holds the bytes of the characters of text, one for one
EncodesExactly(seq, text) ==
    /\ Len(seq) = Len(text)
    /\ \A i \in 1..Len(seq) : CharOf(seq[i]) = Ch(text, i)

\* C13: the dat format carries exactly the wallet payload: buildWallet(x,
\* 'dat') returns the text of buildWallet(x, 'wallet'), and buildWalletDat(x)
\* is the byte encoding of that text with no bytes added or removed (in the
\* extension, of the text its own buildWallet returns).
C13_DatIsWalletPayload ==
    /\ {"build", "encode"} \subseteq done
        => /\ ~output.thrown
           /\ EncodesExactly(bytes.web, output.text)
           /\ bytes.web[1] = 123
           /\ bytes.web[2] = 10
           /\ bytes.web[Len(bytes.web)] = 125
    /\ {"ext", "encode"} \subseteq done
        => /\ ~extOutput.thrown
           /\ EncodesExactly(bytes.ext, extOutput.text)

\* a raw key built as dat, and its wallet payload encoded
C13_DatBuiltAndEncoded ==
    /\ {"build", "encode", "ext"} \subseteq done
    /\ format = "dat"
    /\ content = KeyHex
    /\ Len(bytes.web) = Len(output.text)
    /\ Len(bytes.web) > 64
    /\ Len(bytes.ext) > 64

\* the document the extension built
ExtDocument == JsonParse(extOutput.text).v

\* the keystore of the four shapes that the cleaned content selects
ExpectedKeystore(cleanContent) ==
    IF Len(SplitWords(cleanContent)) \in {12, 15, 18, 21, 24}
    THEN Obj(<< <<"type", JStr("bip39")>>, <<"seed", JStr(cleanContent)>>, <<"password", JNull>> >>)
    ELSE IF isValidPrivateKey(cleanContent) \/ isValidWIF(cleanContent)
    THEN Obj(<< <<"type", JStr("imported")>>,
                <<"keypairs", Obj(<< <<"imported_address", JStr(cleanContent)>> >>)>> >>)
    ELSE IF isValidExtendedKey(cleanContent)
    THEN Obj(<< <<"type", JStr("bip32")>>, <<"xpub", JStr(cleanContent)>> >>)
    ELSE Obj(<< <<"type", JStr("imported")>>,
                <<"keypairs", Obj(<< <<"imported_address", JStr(cleanContent)>> >>)>> >>)

\* the type of the keystore each of the secrets of the inputs must get
KeystoreTypeOf(text) ==
    CASE text \in {Mnemonic12, MnemonicTwoLines, MnemonicThreeLines, MnemonicTabs,
                   TwelveWordsFromXpub} -> "bip39"
      [] text \in {KeyHex, Wif51} -> "imported"
      [] text = ExtendedKey -> "bip32"
      [] text \in {"", "{\"a\":", KeyDecimal} -> "imported"
      [] OTHER -> "any"

\* C14: for the wallet format and content that does not parse as JSON, the
\* keystore is the one the shape of the cleaned content selects: a mnemonic
\* gives {type bip39, seed, password null}; a raw private key or a WIF key
\* gives {type imported, keypairs {imported_address}}; an extended key gives
\* {type bip32, xpub}; anything else the imported keypair shape.  Exactly one
\* of the four is produced, in the web client and in the extension.
C14_KeystoreByShape ==
    LET Shaped(doc) ==
            /\ Get(doc, "keystore") = ExpectedKeystore(ReplaceBreaks(Trim(content), 1))
            /\ KeystoreTypeOf(content) \in {"any", Get(Get(doc, "keystore"), "type").s}
    IN  ~JsonParse(content).ok
            => /\ ("build" \in done /\ format = "wallet") => Shaped(Document)
               /\ "ext" \in done => Shaped(ExtDocument)

\* twelve words that start like an extended key, built by both copies
C14_OverlapBuiltAsMnemonic ==
    /\ {"build", "ext"} \subseteq done
    /\ format = "wallet"
    /\ content = TwelveWordsFromXpub
    /\ Get(Get(Document, "keystore"), "type") = JStr("bip39")
    /\ Get(Get(ExtDocument, "keystore"), "seed") = JStr(TwelveWordsFromXpub)

\* the formats with a fixed schema of their own
FixedSchemaFormats ==
    {"electrum", "exodus", "metamask", "coinbase", "binance", "trezor", "ledger",
     "trustwallet", "mycelium"}

\* the fields that the object literals of a format's builders declare at the
\* top level
DeclaredFields(fmt) ==
    CASE fmt = "electrum" -> {"seed_version", "wallet_type", "keystore", "use_encryption", "labels"}
      [] fmt = "metamask" -> {"version", "id", "address", "crypto"}
      [] fmt = "exodus" -> {"exodus"}
      [] fmt = "coinbase" -> {"version", "id", "name", "walletType", "encrypted", "accounts", "features"}
      [] fmt = "binance" -> {"version", "walletType", "timestamp", "accounts", "settings"}
      [] fmt = "trezor" -> {"version", "device", "mnemonicSeed", "passphrase", "accounts"}
      [] fmt = "ledger" -> {"version", "device", "accounts"}
      [] fmt = "trustwallet" -> {"version", "id", "crypto", "activeAccounts", "metadata"}
      [] fmt = "mycelium" -> {"formatVersion", "walletType", "accounts", "settings"}
      [] OTHER -> {}

\* the required fields of KeystoreBip39, KeystoreImported and KeystoreBip32
KeystoreFields(type) ==
    CASE type = "bip39" -> {"type", "seed", "password"}
      [] type = "imported" -> {"type", "keypairs"}
      [] type = "bip32" -> {"type", "xpub"}
      [] OTHER -> {"type"}

\* the output is the parsed content serialized again, unchanged
PassedThrough ==
    LET Same(ok, parsed) == ok /\ output.text = StringifyPretty(parsed)
    IN  Same(JsonParse(content).ok, JsonParse(content).v)

\* C15: for every format with a schema of its own and every input, structured
\* or raw, the document built (not passed through) contains every field that
\* the format's schema declares, with a defined value: no declared field is
\* missing from any output, whichever branch produced it.
C15_EveryDeclaredFieldEmitted ==
    ("build" \in done /\ format \in FixedSchemaFormats /\ ~PassedThrough)
        => /\ \A name \in DeclaredFields(format) : HasProperty(Document, name)
           /\ format = "electrum"
                => \A name \in KeystoreFields(Get(Get(Document, "keystore"), "type").s) :
                        HasProperty(Get(Document, "keystore"), name)

\* the name, nesting and kind of value of every field of a document
RECURSIVE Paths(_, _)
Paths(v, prefix) ==
    CASE v.t = "obj" ->
            {prefix \o ":object"}
                \cup UNION {Paths(v.a[p], prefix \o "." \o v.k[p]) : p \in 1..Len(v.k)}
      [] v.t = "arr" ->
            {prefix \o ":array"} \cup UNION {Paths(v.a[p], prefix \o "[]") : p \in 1..Len(v.a)}
      [] OTHER -> {prefix \o ":" \o v.t}

\* C16: for each of the twelve formats, the path for content that parses as
\* JSON and the path for a raw secret build documents of one schema: every
\* document of a format has the field names, at each level of nesting, and
\* the kinds of value of the document built from a raw mnemonic.
C16_BothPathsOneSchema ==
    LET SameSchema(reference) == Paths(Document, "") = Paths(JsonParse(reference.text).v, "")
    IN  "build" \in done
            => SameSchema(buildWallet(Mnemonic12, format, [rand |-> <<0>>, iso |-> "", ms |-> "0"]))

\* the descriptor table of the specification
DescriptorTable(fmt) ==
    CASE fmt = "wallet" -> <<".wallet", "application/json">>
      [] fmt = "dat" -> <<".dat", "application/octet-stream">>
      [] fmt = "electrum" -> <<".wallet", "application/json">>
      [] OTHER -> <<".json", "application/json">>

WalletMarkers == {"keystore", "privateKey", "xprv", "seed", "mnemonic", "seedPhrase"}

\* the text parses as a JSON object that has the markers of a wallet, where
\* Marked(v, name) says what having a property means
WalletShaped(text, Marked(_, _)) ==
    LET Test(ok, parsed) ==
            /\ ok
            /\ parsed.t = "obj"
            /\ \/ Marked(parsed, "wallet_type") /\ Marked(parsed, "seed_version")
               \/ Marked(parsed, "crypto") /\ Marked(parsed, "version")
               \/ \E name \in WalletMarkers : Marked(parsed, name)
    IN  Test(JsonParse(Trim(text)).ok, JsonParse(Trim(text)).v)

\* the property has a value that counts as true
HasTruthy(v, name) == HasProperty(v, name) /\ Truthy(Get(v, name))

\* C18, as stated: a text is recognised as wallet JSON exactly when it parses
\* as a JSON object in which wallet_type and seed_version are both present,
\* or crypto and version are both present, or one of keystore, privateKey,
\* xprv, seed, mnemonic, seedPhrase is present, whatever the values.
C18_WalletJsonByPresence ==
    "classify" \in done
        => /\ (label.web = "Wallet JSON") = WalletShaped(content, HasProperty)
           /\ (label.ext = "Wallet JSON") = WalletShaped(content, HasProperty)

\* C18, amended: a text is recognised as wallet JSON exactly when it parses as
\* a JSON object in which wallet_type and seed_version both have truthy
\* values, or crypto and version both have, or one of keystore, privateKey,
\* xprv, seed, mnemonic, seedPhrase has; a property that is null, false, 0 or
\* the empty string counts as absent.  Text that does not parse, or parses
\* to something that is not an object, is not recognised, and nothing is
\* raised.
C18_WalletJsonByTruthiness ==
    "classify" \in done
        => /\ (label.web = "Wallet JSON") = WalletShaped(content, HasTruthy)
           /\ (label.ext = "Wallet JSON") = WalletShaped(content, HasTruthy)
           /\ Trim(content) \in {"{\"privateKey\": \"\"}", "{\"crypto\": {}, \"version\": 0}",
                                 "null", "[1]", "{\"xprv\": 1", "{\"wallet_type\": \"standard\"}"}
                => label.web # "Wallet JSON"
           /\ Trim(content) \in {"{\"crypto\": {}, \"version\": 3}", "{\"seedPhrase\": \"x\"}",
                                 "{\"wallet_type\":\"standard\",\"seed_version\":17}"}
                => label.web = "Wallet JSON"

\* a document whose privateKey is the empty string, classified
C18_EmptyKeyNotWalletJson ==
    /\ "classify" \in done
    /\ content = "{\"privateKey\": \"\"}"
    /\ label.web = "Unknown"
    /\ label.ext = "Unknown"

\* C19: classification, extraction and size estimation never raise:
\* isValidWalletJSON, validateCryptoContent, detectCryptoContentType,
\* detectWalletEntries and estimateOutputSize each return a value for every
\* text; a failure of JSON.parse, or of reading a property of a parsed value
\* that is not an object, is caught where it happens.
C19_NothingRaised ==
    "validate" \in done
        => /\ \A f \in Calls : ~checked[f].thrown /\ checked[f].text # ""
           /\ checked["isValidWalletJSON"].text \in {"true", "false"}
           /\ checked["validateCryptoContent"].text \in {"true", "false"}
           /\ "classify" \in done => checked["detectCryptoContentType"].text = label.web
           /\ label.web \notin {"Unknown", NoLabel.web} => checked["validateCryptoContent"].text = "true"
           /\ Trim(content) = "null"
                => /\ checked["isValidWalletJSON"].text = "false"
                   /\ checked["validateCryptoContent"].text = "false"
                   /\ checked["detectWalletEntries"].text = "1"
           /\ content = "hello\n" \o KeyHex
                => /\ checked["validateCryptoContent"].text = "true"
                   /\ checked["detectCryptoContentType"].text = "Unknown"
                   /\ checked["detectWalletEntries"].text = "2"

\* the text null, whose properties cannot be read, went through every call
C19_NullChecked ==
    /\ {"validate", "classify"} \subseteq done
    /\ content = "null"
    /\ checked["estimateOutputSize"].text = "504"
    /\ checked["detectCryptoContentType"].text = "Unknown"
    /\ ~checked["detectWalletEntries"].thrown

\* the text parses as JSON and is neither an array nor an object whose
\* wallets property is an array or an object
IsSingleDocument(text) ==
    LET Test(ok, jsonData) ==
            /\ ok
            /\ jsonData.t # "arr"
            /\ Get(jsonData, "wallets").t \notin {"arr", "obj"}
    IN  Test(JsonParse(text).ok, JsonParse(text).v)

\* a single document laid out over six lines
PrettyDocument == "{\n  \"a\": 1,\n  \"b\": [\n    2\n  ]\n}"

\* C20: a file that parses as JSON as a whole and is neither an array nor an
\* object with a wallets collection yields exactly one entry, with index 0
\* and type json, whose content is the whole file; it is never split by
\* lines, however many lines the document is laid out over.
C20_SingleDocumentOneEntry ==
    ("detect" \in done /\ IsSingleDocument(content))
        => /\ entries = <<[content |-> content, type |-> "json", index |-> 0]>>
           /\ content \in {PrettyDocument, "null", "{\"wallets\":\"x\"}", "1"} => Len(entries) = 1

\* the document of six lines, extracted as one entry
C20_PrettyDocumentKeptWhole ==
    /\ "detect" \in done
    /\ content = PrettyDocument
    /\ IsSingleDocument(content)
    /\ Len(entries) = 1
    /\ entries[1].content = PrettyDocument
    /\ entries[1].type = "json"

\* the line the scan reads next, trimmed
ScannedLine == Trim(NonBlankLines(content)[scan.i])

\* the scan has read a line
LineRead == scan'.i = scan.i + 1

\* the entry a block gives when it is closed
BlockEntry(block, index) ==
    [content |-> block, type |-> IF JsonParse(block).ok THEN "json" ELSE "text", index |-> index]

\* a line that starts with '{' and is read outside a block opens a block and
\* gives no entry
BlockOpened ==
    (~scan.st.inJsonBlock /\ StartsWith(ScannedLine, "{"))
        => /\ scan'.st.inJsonBlock
           /\ scan'.st.jsonBlock = ScannedLine
           /\ scan'.st.entries = scan.st.entries

\* a line read inside a block that does not end with '}' is appended and
\* gives no entry
BlockExtended ==
    (scan.st.inJsonBlock /\ ~EndsWith(ScannedLine, "}"))
        => /\ scan'.st.inJsonBlock
           /\ scan'.st.jsonBlock = scan.st.jsonBlock \o ScannedLine
           /\ scan'.st.entries = scan.st.entries

\* a line read inside a block that ends with '}' closes the block, which
\* gives exactly one entry
BlockClosed ==
    (scan.st.inJsonBlock /\ EndsWith(ScannedLine, "}"))
        => /\ ~scan'.st.inJsonBlock
           /\ scan'.st.entries =
                Append(scan.st.entries,
                       BlockEntry(scan.st.jsonBlock \o ScannedLine, Len(scan.st.entries)))

\* a comment line leaves the scan as it was
CommentPassed == scan'.st = scan.st

\* C21, as stated: a line beginning with '{' read outside a block opens a
\* block; every following line is appended to the block and gives no entry
\* of its own until a line ending in '}' is read, which closes the block and
\* emits exactly one entry, the concatenated block, tagged json if it parses
\* and text otherwise, leaving the scan outside a block.
C21_EveryLineAppended ==
    [][LineRead => (BlockOpened /\ BlockExtended /\ BlockClosed)]_vars

\* C21, amended: as stated, for every following line that is not a comment;
\* a line starting with '#' or '//' read inside a block is skipped: it is
\* not appended to the block and does not close it.
C21_EveryOtherLineAppended ==
    [][LineRead => IF IsComment(ScannedLine) THEN CommentPassed
                   ELSE BlockOpened /\ BlockExtended /\ BlockClosed]_vars

\* a block with a comment line inside, closed
C21_CommentInsideBlock ==
    /\ content = Join(<<"{", "// note", "}">>, "\n")
    /\ scan.i = 4
    /\ ~scan.st.inJsonBlock
    /\ scan.st.entries = <<[content |-> "{}", type |-> "json", index |-> 0]>>

\* the scan has read every line and a block is still open
BlockLeftOpen ==
    /\ RaisesOnParse(content)
    /\ Len(NonBlankLines(content)) > 1
    /\ scan.i > Len(NonBlankLines(content))
    /\ scan.st.inJsonBlock

\* C22, as stated: a block opened by a line beginning with '{' and never
\* closed is not emitted at all, for every input: the entries returned are
\* the ones the scan emitted, none of which holds the block (no entry is
\* emitted while a block is open), and nothing is raised.
C22_UnclosedBlockNowhere ==
    ("detect" \in done /\ BlockLeftOpen) => entries = scan.st.entries

\* C22, amended: when the scan emitted at least one entry, a block left open
\* is not emitted at all: the entries returned are the ones the scan emitted.
\* When the scan emitted none, the single entry returned holds the whole
\* file, the text of the unclosed block included.  Nothing is raised.
C22_UnclosedBlockDroppedOrWhole ==
    ("detect" \in done /\ BlockLeftOpen)
        => /\ IF scan.st.entries # <<>> THEN entries = scan.st.entries
              ELSE /\ Len(entries) = 1
                   /\ entries[1].content = content
                   /\ entries[1].index = 0
           /\ content = "plain text\n{"
                => entries = <<[content |-> "plain text", type |-> "text", index |-> 0]>>
           /\ content = "# note\n{" => entries[1].content = "# note\n{"

\* a file of a comment and an unclosed block, returned whole
C22_OnlyAnUnclosedBlock ==
    /\ "detect" \in done
    /\ BlockLeftOpen
    /\ content = "# note\n{"
    /\ scan.st.jsonBlock = "{"
    /\ scan.st.entries = <<>>
    /\ Len(entries) = 1

\* a line that is a complete JSON object by itself
IsObjectLine(line) == StartsWith(line, "{") /\ EndsWith(line, "}") /\ JsonParse(line).ok

\* a file of several lines, not JSON as a whole, each line a JSON object
ObjectPerLine(text) ==
    /\ RaisesOnParse(text)
    /\ Len(NonBlankLines(text)) > 1
    /\ \A i \in 1..Len(NonBlankLines(text)) : IsObjectLine(TrimmedLines(text)[i])

\* C25: a file of several lines that is not JSON as a whole and whose every
\* non-blank line is a complete JSON object by itself gives one json-tagged
\* entry per line, in the order of the lines.
C25_OneJsonEntryPerLine ==
    ("detect" \in done /\ ObjectPerLine(content))
        => /\ Len(entries) = Len(NonBlankLines(content))
           /\ \A i \in 1..Len(entries) :
                /\ entries[i].type = "json"
                /\ entries[i].content = TrimmedLines(content)[i]

\* the tag the per-shape predicates of the classifier give to a line
PredicateTag(line) ==
    IF isValidWIF(line) THEN "wif"
    ELSE IF isValidPrivateKey(line) THEN "private_key"
    ELSE IF isValidMnemonic(line) THEN "mnemonic"
    ELSE IF isValidExtendedKey(line) THEN "extended_key"
    ELSE "text"

\* a file of several lines, not JSON as a whole, none of which is a comment
\* or opens a block: every line is a plain line outside a block
PlainLinesOnly(text) ==
    /\ RaisesOnParse(text)
    /\ Len(NonBlankLines(text)) > 1
    /\ \A i \in 1..Len(NonBlankLines(text)) :
            /\ ~IsComment(TrimmedLines(text)[i])
            /\ ~StartsWith(TrimmedLines(text)[i], "{")

\* C23: the tag of a plain line outside a block comes from the per-shape
\* predicates of the classifier and not from a JSON check: never json, wif
\* exactly when isValidWIF holds, private_key exactly when isValidPrivateKey
\* holds, otherwise mnemonic, extended_key or text.
C23_LineTagFromPredicates ==
    ("detect" \in done /\ PlainLinesOnly(content))
        => /\ Len(entries) = Len(NonBlankLines(content))
           /\ \A i \in 1..Len(entries) :
                /\ entries[i].content = TrimmedLines(content)[i]
                /\ entries[i].type # "json"
                /\ entries[i].type = "wif" <=> isValidWIF(entries[i].content)
                /\ entries[i].type = "private_key" <=> isValidPrivateKey(entries[i].content)
                /\ entries[i].type = PredicateTag(entries[i].content)

\* which of the four shape predicates hold of a text
ShapesOf(text) ==
    {s \in {"wif", "private_key", "mnemonic", "address"} :
        \/ s = "wif" /\ isValidWIF(text)
        \/ s = "private_key" /\ isValidPrivateKey(text)
        \/ s = "mnemonic" /\ isValidMnemonic(text)
        \/ s = "address" /\ isValidEthereumAddress(text)}

\* the first of three predicates that holds, tested in the classifier's
\* order and in the order of detectEntryType
ClassifierOrder(text) ==
    IF isValidWIF(text) THEN "wif"
    ELSE IF isValidPrivateKey(text) THEN "private_key"
    ELSE IF isValidMnemonic(text) THEN "mnemonic"
    ELSE "other"

ExtractorOrder(text) ==
    IF isValidMnemonic(text) THEN "mnemonic"
    ELSE IF isValidPrivateKey(text) THEN "private_key"
    ELSE IF isValidWIF(text) THEN "wif"
    ELSE "other"

\* C30: isValidWIF, isValidPrivateKey, isValidMnemonic and
\* isValidEthereumAddress are pairwise mutually exclusive on every text, so
\* testing them in the classifier's order (WIF, private key, mnemonic) or in
\* the extractor's (mnemonic, private key, WIF) gives the same tag, and a
\* text the classifier labels by one of them satisfies no other.
C30_ShapesExclusive ==
    /\ Cardinality(ShapesOf(content)) <= 1
    /\ ClassifierOrder(content) = ExtractorOrder(content)
    /\ "classify" \in done =>
         /\ label.web = "WIF Private Key" => ShapesOf(content) = {"wif"}
         /\ label.web = "Raw Private Key (Hex)" => ShapesOf(content) = {"private_key"}
         /\ label.web = "Mnemonic Seed Phrase" => ShapesOf(content) = {"mnemonic"}
         /\ label.web = "Ethereum Address" => ShapesOf(content) = {"address"}

\* texts of each of the four shapes, classified
C30_AddressClassified ==
    /\ "classify" \in done
    /\ content = "0x" \o EthAddress
    /\ label.web = "Ethereum Address"
    /\ ShapesOf(content) = {"address"}
    /\ ShapesOf(Wif52) = {"wif"}
    /\ ShapesOf(KeyHex) = {"private_key"}
    /\ ShapesOf(Mnemonic12) = {"mnemonic"}

\* the formats whose document for a raw secret is made of placeholders
PlaceholderFormats == {"metamask", "ledger", "trustwallet"}

\* the fields that hold the random id, the time and the kind of secret
VaryingFields == {".id", ".device.deviceId", ".metadata.timestamp", ".metadata.backupType"}

\* the scalar values of a document by their place, the varying fields left out
RECURSIVE FixedValues(_, _)
FixedValues(v, prefix) ==
    CASE v.t = "obj" -> UNION {FixedValues(v.a[p], prefix \o "." \o v.k[p]) : p \in 1..Len(v.k)}
      [] v.t = "arr" ->
            UNION {FixedValues(v.a[p], prefix \o "[" \o ToString(p) \o "]") : p \in 1..Len(v.a)}
      [] OTHER -> IF prefix \in VaryingFields THEN {} ELSE {<<prefix, v.t, v.s>>}

\* the contents that do not parse as JSON and have some text
RawSecrets == {c \in BuildInputs : RaisesOnParse(c) /\ Trim(c) # ""}

\* a raw private key and a raw mnemonic, to which every document is compared
ReferenceSecrets == {KeyHex, Mnemonic12}

\* C28: for metamask, ledger and trustwallet the document built from a raw
\* secret does not depend on the secret: the documents of two raw secrets
\* differ at most in the random id, the timestamp and the mnemonic/privateKey
\* marker (each document is compared to those of two reference secrets), and the text of the secret occurs nowhere in the output.
C28_OutputIndependentOfSecret ==
    ("build" \in done /\ format \in PlaceholderFormats /\ content \in RawSecrets)
        => /\ ~output.thrown
           /\ ~Contains(output.text, Trim(content))
           /\ ~Contains(output.text, CleanContent(content))
           /\ \A other \in ReferenceSecrets \ {content} : \A env \in Envs :
                FixedValues(JsonParse(buildWallet(other, format, env).text).v, "")
                    = FixedValues(Document, "")

\* a trustwallet document built from a raw private key
C28_TrustWalletFromKey ==
    /\ "build" \in done
    /\ format = "trustwallet"
    /\ content = KeyHex
    /\ Get(Get(Document, "metadata"), "backupType") = JStr("privateKey")
    /\ Get(Get(Document, "crypto"), "ciphertext") = JStr("placeholder-ciphertext")

\* the folders of the archive and the paths inside one of them
ArchiveFolders == {Sub(f.path, 1, FirstAt(f.path, 1, Len(f.path), {"/"}, TRUE) - 1) : f \in ui.archive}

PathsIn(folder) == {f.path : f \in {g \in ui.archive : StartsWith(g.path, folder \o "/")}}

C26_NeverSuccessAndError == ~(app.showSuccess /\ app.showError)

\* the files being read and the files selected, in both clients
FilesTaken == app.reading \cup wb.reading \cup ({app.fileData, wb.currentFile} \ {NoFile})

\* the file, its content and the output options of the web client
App_Selection(a) == <<a.fileData, a.outputFormat, a.outputFilename, a.generateAllFormats>>

\* the same of the popup
Wb_Selection(w) == <<w.currentFile, w.currentContent, w.cryptoType, w.outputFormat, w.filename>>

C27_OneGenerationPending ==
    /\ Len(popup.timers) <= 1
    /\ popup.timers # <<>> => popup.generateDisabled
    /\ popup.message.used = popup.message.clicked

====
